---- MODULE Spec2Model ----
(***************************************************************************)
(* Git-backed task store (git_storage.py) and its sync manager             *)
(* (sync_manager.py).                                                      *)
(*                                                                         *)
(* The working tree holds one JSON document per task (tasks/<id>.json) and *)
(* one per project (projects/<name>.json).  `tasks` and `projects` are the *)
(* two directories of the working tree, `index` and `head` are git's       *)
(* staging area and last commit, `commits` counts the commits made.        *)
(***************************************************************************)
EXTENDS Integers, Sequences, FiniteSets, TLC

VARIABLES
    tasks,      \* tasks/<id>.json of the working tree: id -> document
    projects,   \* projects/<name>.json of the working tree
    index,      \* git's staging area
    head,       \* the tree of the last commit
    commits,    \* number of commits on the branch
    clock,      \* the instant the next datetime.now() returns
    call,       \* the step taken last: for a store call its name and
                \* arguments, and for a create or an update the document it
                \* found under its id
    ret,        \* what that call returned
    steps,      \* the file and git steps that call ran, in order
    remote,     \* the repository has a remote with an upstream branch
    remote_url, \* SyncManager.remote_url
    origin_url, \* the URL of the repository's remote `origin`, if it has one
    origin,     \* the tree of the remote branch
    base,       \* the tree of the last commit both branches share
    ahead,      \* local commits the remote branch lacks
    behind,     \* remote commits the local branch lacks
    rebase,     \* a stopped rebase: whether one is in progress, and the
                \* paths left unmerged
    last_sync,  \* SyncManager._last_sync
    pc,         \* where each concurrent update_task_status call stands
    local,      \* task_data of each such call
    req,        \* the status each such call was given
    issued,     \* the calls in the order they were made
    syncpc,     \* where the background sync loop stands
    lpc,        \* where a get_tasks call that runs beside mutations stands
    result,     \* what that call has built: the tasks it kept (`top`) and
                \* those it has attached the subtasks to (`out`)
    snapshots,  \* tasks/ at that call's entry and after every mutation made
                \* before its return
    _stop_flag, \* SyncManager._stop_flag
    _sync_thread,       \* SyncManager._sync_thread: no thread, or a thread
    interval_minutes,   \* SyncManager.interval_minutes
    loops,      \* where each thread running _sync_loop stands
    orphans     \* the threads of SyncManager objects the server has
                \* replaced, each with the _stop_flag of its object

gitVars == <<remote, remote_url, origin_url, origin, base, ahead, behind, rebase,
            last_sync>>

listVars == <<lpc, result, snapshots>>

schedVars == <<_stop_flag, _sync_thread, interval_minutes, loops, orphans>>

concVars == <<pc, local, req, issued, syncpc, listVars, schedVars>>

vars == <<tasks, projects, index, head, commits, clock, call, ret, steps,
          gitVars, concVars>>

(***************************************************************************)
(* Bounds of the model.                                                    *)
(***************************************************************************)
MaxCommits == 4
MaxGitCommits == 4
MaxGitClock == 4
MaxBehind == 1
NCallers == 2
MaxConcClock == 4
MaxListClock == 5
MaxThreads == 3
MaxSchedClock == 3
MaxScenarioCalls == 3

(***************************************************************************)
(* Python values.                                                          *)
(***************************************************************************)
\* Python's None, for the optional string fields and arguments.
None == "None"

\* bool(v) of an optional string: None and "" are falsy.
Truthy(v) == v # None /\ v # ""

\* One decimal digit as a character.
Digit(d) == SubSeq("0123456789", d + 1, d + 1)

\* datetime.now().isoformat(): a fixed-width text whose lexicographic order
\* is the order of the instants; `t` is the instant read from the clock.
isoformat(t) == "T" \o Digit(t \div 10) \o Digit(t % 10)

\* ord(c) for the characters timestamps are made of.
Ord(c) == CHOOSE i \in 1..11 : SubSeq("0123456789T", i, i) = c

\* Python's a < b on str: lexicographic, a proper prefix is smaller.
RECURSIVE StrLess(_, _)
StrLess(a, b) ==
    IF Len(b) = 0 THEN FALSE
    ELSE IF Len(a) = 0 THEN TRUE
    ELSE IF SubSeq(a, 1, 1) # SubSeq(b, 1, 1)
         THEN Ord(SubSeq(a, 1, 1)) < Ord(SubSeq(b, 1, 1))
    ELSE StrLess(SubSeq(a, 2, Len(a)), SubSeq(b, 2, Len(b)))

\* dict.get / item assignment on a dict modelled as a function.
Put(d, k, v) == [x \in DOMAIN d \cup {k} |-> IF x = k THEN v ELSE d[x]]
Del(d, k) == [x \in DOMAIN d \ {k} |-> d[x]]
Get(d, k, default) == IF k \in DOMAIN d THEN d[k] ELSE default

EmptyDir == [x \in {} |-> None]

(***************************************************************************)
(* Identity.                                                               *)
(***************************************************************************)
\* hashlib.sha256(content).hexdigest()[:12], taken as collision-free: the
\* digest of a text is a token that determines the text.
sha256_12(content) == "#" \o content

_task_id_from_name(task_name, project_path) ==
    sha256_12(project_path \o ":" \o task_name)

\* Path(p).name: the last component of a path.
RECURSIVE PathName(_)
PathName(p) ==
    LET slashes == {i \in 1..Len(p) : SubSeq(p, i, i) = "/"}
    IN  IF slashes = {} THEN p
        ELSE LET last == CHOOSE i \in slashes : \A j \in slashes : j <= i
             IN  IF last = Len(p) THEN PathName(SubSeq(p, 1, Len(p) - 1))
                 ELSE SubSeq(p, last + 1, Len(p))

(***************************************************************************)
(* The state a handler works on, as one record.                            *)
(***************************************************************************)
Cur == [tasks |-> tasks, projects |-> projects, index |-> index,
        head |-> head, commits |-> commits, ret |-> ret,
        remote |-> remote, remote_url |-> remote_url,
        origin_url |-> origin_url, origin |-> origin,
        base |-> base, ahead |-> ahead, behind |-> behind,
        rebase |-> rebase, last_sync |-> last_sync, log |-> <<>>]

Install(s) ==
    /\ tasks' = s.tasks
    /\ projects' = s.projects
    /\ index' = s.index
    /\ head' = s.head
    /\ commits' = s.commits
    /\ ret' = s.ret
    /\ remote' = s.remote
    /\ remote_url' = s.remote_url
    /\ origin_url' = s.origin_url
    /\ origin' = s.origin
    /\ base' = s.base
    /\ ahead' = s.ahead
    /\ behind' = s.behind
    /\ rebase' = s.rebase
    /\ last_sync' = s.last_sync
    /\ steps' = s.log

\* A handler has run the step `event`.
Logged(s, event) == [s EXCEPT !.log = Append(@, event)]

\* A handler that runs to its return on its own.
StoreCall(s) == Install(s) /\ UNCHANGED concVars

\* The working tree as git sees it.
WorkTree(s) == [tasks |-> s.tasks, projects |-> s.projects]

EmptyTree == [tasks |-> EmptyDir, projects |-> EmptyDir]

(***************************************************************************)
(* Trees.  A path is <<directory, file name>>.                             *)
(***************************************************************************)
InTree(tree, path) == path[2] \in DOMAIN tree[path[1]]

\* What a tree holds at a path that it does not have.
Absent == [absent |-> TRUE]

\* A file git left with conflict markers: it no longer parses as JSON.
Conflicted == [conflict_markers |-> TRUE]

At(tree, path) ==
    IF InTree(tree, path) THEN tree[path[1]][path[2]] ELSE Absent

Paths(tree) ==
    {<<"tasks", f>> : f \in DOMAIN tree.tasks}
        \cup {<<"projects", f>> : f \in DOMAIN tree.projects}

\* The tree that holds content[path] at every path of `paths` where the
\* content is not Absent.
BuildTree(paths, content) ==
    [d \in {"tasks", "projects"} |->
        [f \in {q[2] : q \in {x \in paths :
                                x[1] = d /\ content[x] # Absent}} |->
            content[<<d, f>>]]]

(***************************************************************************)
(* Git commands.                                                           *)
(***************************************************************************)
NoRebase == [active |-> FALSE, unmerged |-> {}]

\* `git add <path>` succeeds when the path is in the working tree or is
\* tracked (then its deletion is staged); otherwise it exits non-zero.
GitAddOk(s, path) == InTree(WorkTree(s), path) \/ InTree(s.index, path)

\* Staging a path also marks it resolved when a rebase stopped on it.
GitAdd(s, path) ==
    LET d == path[1]
        f == path[2]
        staged == IF InTree(WorkTree(s), path)
                  THEN Put(s.index[d], f, WorkTree(s)[d][f])
                  ELSE Del(s.index[d], f)
    IN  [s EXCEPT !.index = [s.index EXCEPT ![d] = staged],
                  !.rebase.unmerged = @ \ {path}]

\* `git add .`
GitAddAll(s) == [s EXCEPT !.index = WorkTree(s), !.rebase.unmerged = {}]

\* `git commit -m msg`: refused while paths are unmerged; otherwise a commit
\* is made only when something is staged.
GitCommit(s) ==
    IF s.rebase.unmerged # {} \/ s.index = s.head THEN s
    ELSE [s EXCEPT !.head = s.index, !.commits = s.commits + 1,
                   !.ahead = IF s.remote /\ ~s.rebase.active
                             THEN s.ahead + 1 ELSE s.ahead]

\* `git status --porcelain` prints something: a tracked file is modified,
\* staged or deleted, or a file is untracked.
StatusPorcelain(s) == s.index # s.head \/ WorkTree(s) # s.index

\* Tracked files differ from the last commit: `git pull --rebase` refuses.
Dirty(s) ==
    \/ s.index # s.head
    \/ \E path \in Paths(s.index) : At(WorkTree(s), path) # At(s.index, path)

AllPaths(s) == Paths(s.base) \cup Paths(s.head) \cup Paths(s.origin)

\* The paths both sides changed since their common ancestor, differently.
ConflictPaths(s) ==
    {path \in AllPaths(s) :
        /\ At(s.head, path) # At(s.base, path)
        /\ At(s.origin, path) # At(s.base, path)
        /\ At(s.head, path) # At(s.origin, path)}

\* The three-way merge of the local commits onto the remote branch; a path
\* in conflict holds the remote side.
Merged(s) ==
    LET content == [path \in AllPaths(s) |->
            IF At(s.head, path) = At(s.base, path) THEN At(s.origin, path)
            ELSE IF At(s.origin, path) = At(s.base, path) THEN At(s.head, path)
            ELSE At(s.origin, path)]
    IN  BuildTree(AllPaths(s), content)

\* The working tree after git checked out `tree`: the tracked files are
\* those of the tree, the untracked ones stay, `marked` hold conflict
\* markers.
CheckedOut(s, tree, marked) ==
    LET untracked == Paths(WorkTree(s)) \ Paths(s.index)
        paths == Paths(tree) \cup untracked \cup marked
        content == [path \in paths |->
            IF path \in marked THEN Conflicted
            ELSE IF InTree(tree, path) THEN At(tree, path)
            ELSE IF path \in untracked THEN At(WorkTree(s), path)
            ELSE Absent]
    IN  BuildTree(paths, content)

\* An untracked file that the incoming tree would overwrite.
UntrackedInTheWay(s) ==
    \E path \in Paths(WorkTree(s)) \ Paths(s.index) : InTree(Merged(s), path)

\* `git pull --rebase`, with `net` telling whether the remote answers.
\* The result says whether git exited 0; on a conflict the rebase stops
\* with HEAD detached on the remote commit and markers in the files.
GitPullRebase(s, net) ==
    IF ~s.remote \/ s.rebase.active \/ Dirty(s) \/ ~net
    THEN [s |-> s, ok |-> FALSE]
    ELSE IF s.behind = 0 THEN [s |-> s, ok |-> TRUE]
    ELSE IF UntrackedInTheWay(s) THEN [s |-> s, ok |-> FALSE]
    ELSE IF ConflictPaths(s) = {}
    THEN LET work == CheckedOut(s, Merged(s), {})
         IN  [s |-> [s EXCEPT !.tasks = work.tasks,
                              !.projects = work.projects,
                              !.index = Merged(s),
                              !.head = Merged(s),
                              !.base = s.origin,
                              !.behind = 0,
                              !.commits = s.commits + s.behind],
              ok |-> TRUE]
    ELSE LET work == CheckedOut(s, Merged(s), ConflictPaths(s))
         IN  [s |-> [s EXCEPT !.tasks = work.tasks,
                              !.projects = work.projects,
                              !.index = Merged(s),
                              !.head = s.origin,
                              !.commits = s.commits - s.ahead + s.behind,
                              !.rebase = [active |-> TRUE,
                                          unmerged |-> ConflictPaths(s)]],
              ok |-> FALSE]

\* `git push`: refused on a detached HEAD and when the remote branch has
\* commits the local one lacks; it fails when the remote does not answer.
GitPush(s, net) ==
    IF ~s.remote \/ s.rebase.active \/ ~net \/ s.behind > 0
    THEN [s |-> s, ok |-> FALSE]
    ELSE [s |-> [s EXCEPT !.origin = s.head, !.base = s.head, !.ahead = 0],
          ok |-> TRUE]

\* _git_pull: nothing when `git remote` lists no remote; the exit code of
\* the pull is not looked at (check=False).
_git_pull(s, net) ==
    IF Truthy(s.origin_url) THEN Logged(GitPullRebase(s, net).s, "pull") ELSE s

\* The `git add` calls of a handler, in order, with check=True: the first
\* failing one raises and the later ones do not run.
RECURSIVE AddFiles(_, _)
AddFiles(s, files) ==
    IF files = <<>> THEN [s |-> s, ok |-> TRUE]
    ELSE IF ~GitAddOk(s, Head(files)) THEN [s |-> s, ok |-> FALSE]
    ELSE AddFiles(GitAdd(s, Head(files)), Tail(files))

\* `except Exception: pass`: a failed add skips the commit and the push.
\* The push runs when `git remote` lists a remote; its exit code is not
\* looked at.
_git_commit_and_push(s, net, files) ==
    LET added == IF files = <<>> THEN [s |-> GitAddAll(s), ok |-> TRUE]
                 ELSE AddFiles(s, files)
        committed == Logged(GitCommit(Logged(added.s, "add")), "commit")
    IN  IF ~added.ok THEN Logged(added.s, "add")
        ELSE IF Truthy(committed.origin_url)
        THEN Logged(GitPush(committed, net).s, "push")
        ELSE committed

(***************************************************************************)
(* Queries of the store.                                                   *)
(***************************************************************************)
\* The documents of tasks_dir.glob("*.json"), in the order of the scan.
RECURSIVE Scan(_)
Scan(dir) ==
    IF DOMAIN dir = {} THEN <<>>
    ELSE LET f == CHOOSE x \in DOMAIN dir : TRUE
         IN  <<dir[f]>> \o Scan(Del(dir, f))

\* json.loads(task_file.read_text()) succeeds.
Parses(doc) == doc # Conflicted

\* The documents a scan gets to work on: a file that does not parse raises
\* inside the loop's `try` and is skipped.
ParsedDocs(dir) == SelectSeq(Scan(dir), Parses)

\* stats[status] = stats.get(status, 0) + 1
Bump(stats, k) == Put(stats, k, Get(stats, k, 0) + 1)

\* Statistics that count the top-level tasks only.
RECURSIVE CountStats_TopLevelOnly(_, _, _)
CountStats_TopLevelOnly(docs, project_path, stats) ==
    IF docs = <<>> THEN stats
    ELSE LET task_data == Head(docs)
         IN  IF \/ Truthy(project_path) /\ task_data.project_path # project_path
                \/ Truthy(task_data.parent_task_id)
             THEN CountStats_TopLevelOnly(Tail(docs), project_path, stats)
             ELSE CountStats_TopLevelOnly(
                      Tail(docs), project_path,
                      Bump(Bump(stats, "total"), task_data.status))

\* The loop of get_project_stats over the documents it could parse.
RECURSIVE CountStats(_, _, _)
CountStats(docs, project_path, stats) ==
    IF docs = <<>> THEN stats
    ELSE LET task_data == Head(docs)
         IN  IF Truthy(project_path) /\ task_data.project_path # project_path
             THEN CountStats(Tail(docs), project_path, stats)
             ELSE CountStats(Tail(docs), project_path,
                             Bump(Bump(stats, "total"), task_data.status))

ZeroStats == [k \in {"total", "pending", "in_progress", "completed"} |-> 0]

\* get_project_stats, on the working tree it reads after its pull.
get_project_stats(s, net, project_path) ==
    CountStats(ParsedDocs(_git_pull(s, net).tasks), project_path, ZeroStats)

\* get_task_by_id
get_task_by_id(s, task_id) ==
    IF task_id \in DOMAIN s.tasks /\ Parses(s.tasks[task_id])
    THEN s.tasks[task_id] ELSE None

\* Python compares key tuples lexicographically; a key here is
\* <<number, text>>.
KeyLess(a, b) == a[1] < b[1] \/ (a[1] = b[1] /\ StrLess(a[2], b[2]))

\* list.sort(key=..., reverse=...) on items [key, doc]: stable, and with
\* reverse=True descending by key, equal keys keeping their order.
RECURSIVE PySort(_, _)
PySort(items, reverse) ==
    IF items = <<>> THEN <<>>
    ELSE LET Before(x, y) == IF reverse THEN KeyLess(y.key, x.key)
                             ELSE KeyLess(x.key, y.key)
             first == CHOOSE i \in 1..Len(items) :
                         /\ \A j \in 1..Len(items) : ~Before(items[j], items[i])
                         /\ \A j \in 1..(i - 1) : Before(items[i], items[j])
             rest == [k \in 1..(Len(items) - 1) |->
                         IF k < first THEN items[k] ELSE items[k + 1]]
         IN  <<items[first].doc>> \o PySort(rest, reverse)

\* key=lambda t: t.get("created_at", "")
SubtaskKey(t) == <<0, t.created_at>>

get_subtasks(s, parent_task_id) ==
    LET IsChild(t) == t.parent_task_id = parent_task_id
        subtasks == SelectSeq(ParsedDocs(s.tasks), IsChild)
    IN  PySort([i \in 1..Len(subtasks) |->
                    [key |-> SubtaskKey(subtasks[i]), doc |-> subtasks[i]]],
               FALSE)

\* key=lambda t: (-t.get("priority", 0), t.get("created_at", ""))
TaskKey(t) == <<-t.priority, t.created_at>>

\* tasks[:limit]
Take(seq, limit) == SubSeq(seq, 1, IF limit < Len(seq) THEN limit ELSE Len(seq))

\* Filters that test the parent id only when no project filter is given.
KeepTask_SubtasksOfProject(t, status, project_path, category, include_subtasks) ==
    /\ ~(Truthy(status) /\ t.status # status)
    /\ ~(Truthy(project_path) /\ t.project_path # project_path)
    /\ ~(Truthy(category) /\ t.category # category)
    /\ ~(~include_subtasks /\ ~Truthy(project_path)
          /\ Truthy(t.parent_task_id))

\* The filters of get_tasks: a document is skipped (`continue`) when a
\* given filter differs, and when it is a subtask and subtasks are not asked
\* for.
KeepTask(t, status, project_path, category, include_subtasks) ==
    /\ ~(Truthy(status) /\ t.status # status)
    /\ ~(Truthy(project_path) /\ t.project_path # project_path)
    /\ ~(Truthy(category) /\ t.category # category)
    /\ ~(~include_subtasks /\ Truthy(t.parent_task_id))

\* The scan, the sort and the cut of get_tasks: tasks[:limit] before the
\* subtasks are loaded.
ScanTasks(s, status, project_path, category, limit, include_subtasks) ==
    LET Keep(t) == KeepTask(t, status, project_path, category, include_subtasks)
        kept == SelectSeq(ParsedDocs(s.tasks), Keep)
        sorted == PySort([i \in 1..Len(kept) |->
                             [key |-> TaskKey(kept[i]), doc |-> kept[i]]],
                         TRUE)
    IN  Take(sorted, limit)

\* get_tasks: the top-level documents it returns, each with its subtasks
\* attached under "subtasks".
get_tasks(s, net, status, project_path, category, limit, include_subtasks) ==
    LET s1 == _git_pull(s, net)
        top == ScanTasks(s1, status, project_path, category, limit,
                         include_subtasks)
    IN  [i \in 1..Len(top) |->
            [task |-> top[i], subtasks |-> get_subtasks(s1, top[i].id)]]

\* The entry get_all_projects starts a project with.
ProjectEntry(project_path, project_name, description) ==
    [project_path |-> project_path, project_name |-> project_name,
     description |-> description, task_count |-> 0, pending_count |-> 0,
     completed_count |-> 0]

\* The position of a project in the dict `projects` of get_all_projects,
\* kept as the sequence of its values in insertion order; 0 when absent.
PositionOf(entries, project_path) ==
    IF \E i \in 1..Len(entries) : entries[i].project_path = project_path
    THEN CHOOSE i \in 1..Len(entries) : entries[i].project_path = project_path
    ELSE 0

\* projects[project_path] = entry
SetEntry(entries, entry) ==
    IF PositionOf(entries, entry.project_path) = 0
    THEN Append(entries, entry)
    ELSE [entries EXCEPT ![PositionOf(entries, entry.project_path)] = entry]

\* The first loop of get_all_projects, over the project files that parse.
RECURSIVE LoadProjects(_, _)
LoadProjects(docs, entries) ==
    IF docs = <<>> THEN entries
    ELSE LET project_data == Head(docs)
             project_path == Get(project_data, "project_path", None)
         IN  IF Truthy(project_path)
             THEN LoadProjects(
                      Tail(docs),
                      SetEntry(entries,
                               ProjectEntry(
                                   project_path,
                                   Get(project_data, "project_name", project_path),
                                   Get(project_data, "description", ""))))
             ELSE LoadProjects(Tail(docs), entries)

\* Counts that leave the subtasks out.
CountTask_TopLevelOnly(entry, task_data) ==
    IF Truthy(task_data.parent_task_id) THEN entry
    ELSE [entry EXCEPT
             !.task_count = @ + 1,
             !.pending_count = IF task_data.status = "pending" THEN @ + 1 ELSE @,
             !.completed_count =
                 IF task_data.status = "completed" THEN @ + 1 ELSE @]

\* One task counted in the entry of its project.
CountTask(entry, task_data) ==
    [entry EXCEPT
        !.task_count = @ + 1,
        !.pending_count = IF task_data.status = "pending" THEN @ + 1 ELSE @,
        !.completed_count = IF task_data.status = "completed" THEN @ + 1 ELSE @]

\* The second loop of get_all_projects, over the task files that parse.
RECURSIVE CountProjects(_, _)
CountProjects(docs, entries) ==
    IF docs = <<>> THEN entries
    ELSE LET task_data == Head(docs)
             project_path == task_data.project_path
             known == IF PositionOf(entries, project_path) = 0
                      THEN Append(entries,
                                  ProjectEntry(project_path, project_path, ""))
                      ELSE entries
         IN  IF ~Truthy(project_path) THEN CountProjects(Tail(docs), entries)
             ELSE CountProjects(
                      Tail(docs),
                      SetEntry(known,
                               CountTask(known[PositionOf(known, project_path)],
                                         task_data)))

\* get_all_projects: the entries sorted by task_count, reverse=True.
get_all_projects(s, net) ==
    LET s1 == _git_pull(s, net)
        entries == CountProjects(ParsedDocs(s1.tasks),
                                 LoadProjects(ParsedDocs(s1.projects), <<>>))
    IN  PySort([i \in 1..Len(entries) |->
                    [key |-> <<entries[i].task_count, "">>, doc |-> entries[i]]],
               TRUE)

(***************************************************************************)
(* Mutations of the store.  `now` is the instant datetime.now() returns.   *)
(***************************************************************************)
_task_file_path(task_id) == <<"tasks", task_id>>

\* _update_project_stats: the project file is rewritten with the counts,
\* the project path and the time, and is not staged.
_update_project_stats(s, now, net, project_path) ==
    LET project_file == PathName(project_path)
        s1 == _git_pull(s, net)
        stats == Put(Put(get_project_stats(s, net, project_path),
                         "project_path", project_path),
                     "last_active", isoformat(now))
    IN  Logged([s1 EXCEPT !.projects = Put(s1.projects, project_file, stats)],
               "write")

\* A create call that stores priority 0 whatever priority it was given.
NewTask_PriorityDropped(task_id, now, task_name, description, category, project_path, priority, parent_task_id) ==
    [id |-> task_id, task_name |-> task_name, description |-> description,
     category |-> category, status |-> "pending",
     project_path |-> project_path, parent_task_id |-> parent_task_id,
     created_at |-> isoformat(now), completed_at |-> None, priority |-> 0,
     completion_report |-> None]

\* task_data of create_task.  `description` stands for the fields the store
\* only passes through (description, action_required, due_date,
\* claude_session_id, metadata).
NewTask(task_id, now, task_name, description, category, project_path, priority, parent_task_id) ==
    [id |-> task_id,
     task_name |-> task_name,
     description |-> description,
     category |-> category,
     status |-> "pending",
     project_path |-> project_path,
     parent_task_id |-> parent_task_id,
     created_at |-> isoformat(now),
     completed_at |-> None,
     priority |-> priority,
     completion_report |-> None]

create_task(s, now, net, task_name, description, category, project_path, priority, parent_task_id) ==
    LET task_id == _task_id_from_name(
                       task_name,
                       IF Truthy(project_path) THEN project_path ELSE "")
        task_data == NewTask(task_id, now, task_name, description, category,
                             project_path, priority, parent_task_id)
        s1 == Logged([s EXCEPT !.tasks = Put(s.tasks, task_id, task_data)],
                     "write")
        s2 == IF Truthy(project_path)
              THEN _update_project_stats(s1, now, net, project_path)
              ELSE s1
        s3 == _git_commit_and_push(s2, net, <<_task_file_path(task_id)>>)
    IN  [s3 EXCEPT !.ret = [op |-> "create_task", val |-> task_id]]

\* An update that keeps the report a task already holds.
WithStatus_FirstReportKept(task_data, now, status, report) ==
    LET d1 == [task_data EXCEPT !.status = status]
    IN  IF status = "completed"
        THEN [d1 EXCEPT !.completed_at = isoformat(now),
                        !.completion_report =
                            IF Truthy(report) /\ ~Truthy(@) THEN report ELSE @]
        ELSE d1

\* An update that sets the status and the report but no completion time.
WithStatus_NoCompletionTime(task_data, now, status, report) ==
    LET d1 == [task_data EXCEPT !.status = status]
    IN  IF status = "completed"
        THEN [d1 EXCEPT !.completion_report =
                            IF Truthy(report) THEN report ELSE @]
        ELSE d1

\* An update that writes a new document for the task, built like the one of
\* a create: the creation time is the time of the update.
WithStatus_Recreated(task_data, now, status, report) ==
    LET d1 == [task_data EXCEPT !.status = status, !.created_at = isoformat(now)]
    IN  IF status = "completed"
        THEN [d1 EXCEPT !.completed_at = isoformat(now),
                        !.completion_report =
                            IF Truthy(report) THEN report ELSE @]
        ELSE d1

\* The document update_task_status writes back: the status is set, and
\* for "completed" the completion time and, when one is given, the report.
WithStatus(task_data, now, status, report) ==
    LET d1 == [task_data EXCEPT !.status = status]
    IN  IF status = "completed"
        THEN [d1 EXCEPT !.completed_at = isoformat(now),
                        !.completion_report =
                            IF Truthy(report) THEN report ELSE @]
        ELSE d1

update_task_status(s, now, net, task_id, status, report) ==
    IF task_id \notin DOMAIN s.tasks \/ ~Parses(s.tasks[task_id])
    THEN [s EXCEPT !.ret = [op |-> "update_task_status", val |-> "False"]]
    ELSE
    LET task_data == WithStatus(s.tasks[task_id], now, status, report)
        s1 == Logged([s EXCEPT !.tasks = Put(s.tasks, task_id, task_data)],
                     "write")
        s2 == _git_commit_and_push(s1, net, <<_task_file_path(task_id)>>)
    IN  [s2 EXCEPT !.ret = [op |-> "update_task_status", val |-> "True"]]

\* A delete without the test that the task file exists.
delete_task_Unchecked(s, net, task_id) ==
    LET s1 == Logged([s EXCEPT !.tasks = Del(s.tasks, task_id)], "remove")
        s2 == _git_commit_and_push(s1, net, <<_task_file_path(task_id)>>)
    IN  [s2 EXCEPT !.ret = [op |-> "delete_task", val |-> "True"]]

delete_task(s, net, task_id) ==
    IF task_id \notin DOMAIN s.tasks \/ ~Parses(s.tasks[task_id])
    THEN [s EXCEPT !.ret = [op |-> "delete_task", val |-> "False"]]
    ELSE
    LET s1 == Logged([s EXCEPT !.tasks = Del(s.tasks, task_id)], "remove")
        s2 == _git_commit_and_push(s1, net, <<_task_file_path(task_id)>>)
    IN  [s2 EXCEPT !.ret = [op |-> "delete_task", val |-> "True"]]

\* str.lower() and str.replace(" ", "-"), character by character.
LowerChar(c) ==
    LET up == "ABCDEFGHIJKLMNOPQRSTUVWXYZ"
        lo == "abcdefghijklmnopqrstuvwxyz"
        hit == {i \in 1..26 : SubSeq(up, i, i) = c}
    IN  IF hit = {} THEN c
        ELSE LET i == CHOOSE i \in hit : TRUE IN SubSeq(lo, i, i)

RECURSIVE Slug(_)
Slug(name) ==
    IF Len(name) = 0 THEN ""
    ELSE LET c == LowerChar(SubSeq(name, 1, 1))
         IN  (IF c = " " THEN "-" ELSE c) \o Slug(SubSeq(name, 2, Len(name)))

create_project(s, now, net, project_name, description) ==
    LET project_path == Slug(project_name)
        project_data ==
            [k \in {"project_name", "project_path", "description",
                    "created_at", "last_active", "total", "pending",
                    "in_progress", "completed"} |->
                CASE k = "project_name" -> project_name
                  [] k = "project_path" -> project_path
                  [] k = "description" -> description
                  [] k \in {"created_at", "last_active"} -> isoformat(now)
                  [] OTHER -> 0]
        s1 == Logged([s EXCEPT !.projects =
                                  Put(s.projects, project_path, project_data)],
                     "write")
        s2 == _git_commit_and_push(s1, net, <<<<"projects", project_path>>>>)
    IN  [s2 EXCEPT !.ret = [op |-> "create_project", val |-> project_path]]

\* GitTaskStorage.sync
sync(s, net) == [_git_pull(s, net) EXCEPT !.ret = [op |-> "sync", val |-> None]]

(***************************************************************************)
(* The sync manager.                                                       *)
(***************************************************************************)
\* The scheduler fields of the SyncManager; `loops` holds the threads that
\* were started to run _sync_loop, each at "test" (the while test), "sync"
\* (in sync_now), "sleep" (the sleeping for loop) or "dead" (returned).
Mgr == [_stop_flag |-> _stop_flag, _sync_thread |-> _sync_thread,
        interval_minutes |-> interval_minutes, loops |-> loops]

InstallMgr(m) ==
    /\ _stop_flag' = m._stop_flag
    /\ _sync_thread' = m._sync_thread
    /\ interval_minutes' = m.interval_minutes
    /\ loops' = m.loops

\* self._sync_thread = None: the threads are numbered from 1.
NoThread == 0

\* SyncManager.__init__: no thread, the flag down.
NoScheduler ==
    /\ _stop_flag = FALSE
    /\ _sync_thread = NoThread
    /\ interval_minutes = 120
    /\ loops = <<>>
    /\ orphans = [t \in {} |-> FALSE]

\* self._sync_thread and self._sync_thread.is_alive()
is_alive(m) == m._sync_thread # NoThread /\ m.loops[m._sync_thread] # "dead"

\* A start that does not look whether a thread is alive.
start_auto_sync_Unchecked(m) ==
    [m EXCEPT !._stop_flag = FALSE,
              !.loops = Append(@, "test"),
              !._sync_thread = Len(m.loops) + 1]

\* The second half of start_auto_sync: the flag is lowered and a new
\* thread is started on _sync_loop.
StartThread(m) ==
    [m EXCEPT !._stop_flag = FALSE,
              !.loops = Append(@, "test"),
              !._sync_thread = Len(m.loops) + 1]

\* start_auto_sync: nothing when the thread is alive; else StartThread.
start_auto_sync(m) == IF is_alive(m) THEN m ELSE StartThread(m)

\* A stop that ends the thread wherever it stands.
stop_auto_sync_Interrupting(m, joined) ==
    LET flagged == [m EXCEPT !._stop_flag = TRUE]
    IN  IF joined /\ is_alive(m)
        THEN [flagged EXCEPT !.loops[m._sync_thread] = "dead"]
        ELSE flagged

\* stop_auto_sync: the flag is raised and the thread joined for 5 seconds.
\* `joined` says whether a thread that is at its while test or asleep saw
\* the flag and returned within the 5 seconds.
stop_auto_sync(m, joined) ==
    LET flagged == [m EXCEPT !._stop_flag = TRUE]
    IN  IF joined /\ is_alive(m) /\ m.loops[m._sync_thread] \in {"test", "sleep"}
        THEN [flagged EXCEPT !.loops[m._sync_thread] = "dead"]
        ELSE flagged

\* sync_now when a git command cannot be run: the exception is caught,
\* logged, and False returned; _last_sync is not set.
sync_now_raised(s) == [s EXCEPT !.ret = [op |-> "sync_now", val |-> "False"]]

\* A sync that does not look whether a remote URL is configured.
sync_now_UrlNotTested(s, now, net, push) ==
    LET pulled == {Logged(GitPullRebase(s, net).s, "pull")}
        swept == {IF push /\ StatusPorcelain(s1)
                  THEN Logged(GitCommit(Logged(GitAddAll(s1), "add")), "commit")
                  ELSE s1 : s1 \in pulled}
        pushed == {IF push THEN Logged(GitPush(s2, net).s, "push") ELSE s2 :
                      s2 \in swept}
    IN  CHOOSE r \in {[s3 EXCEPT !.last_sync = isoformat(now),
                                 !.ret = [op |-> "sync_now", val |-> "True"]] :
                          s3 \in pushed} : TRUE

\* A sync that pulls and commits and leaves the push out.
sync_now_PushLeftOut(s, now, net, push) ==
    IF ~Truthy(s.remote_url)
    THEN [s EXCEPT !.ret = [op |-> "sync_now", val |-> "False"]]
    ELSE
    LET pulled == {Logged(GitPullRebase(s, net).s, "pull")}
        swept == {IF push /\ StatusPorcelain(s1)
                  THEN Logged(GitCommit(Logged(GitAddAll(s1), "add")), "commit")
                  ELSE s1 : s1 \in pulled}
    IN  CHOOSE r \in {[s2 EXCEPT !.last_sync = isoformat(now),
                                 !.ret = [op |-> "sync_now", val |-> "True"]] :
                          s2 \in swept} : TRUE

\* sync_now: pull, then (with push) one commit of whatever `git status`
\* reports, then push.  The exit codes of pull and push are only logged.
\* Each step works on the one repository state the step before it left
\* (`pulled`, `swept`, `pushed` hold that one state).
sync_now(s, now, net, push) ==
    IF ~Truthy(s.remote_url)
    THEN [s EXCEPT !.ret = [op |-> "sync_now", val |-> "False"]]
    ELSE
    LET pulled == {Logged(GitPullRebase(s, net).s, "pull")}
        swept == {IF push /\ StatusPorcelain(s1)
                  THEN Logged(GitCommit(Logged(GitAddAll(s1), "add")), "commit")
                  ELSE s1 : s1 \in pulled}
        pushed == {IF push THEN Logged(GitPush(s2, net).s, "push") ELSE s2 :
                      s2 \in swept}
    IN  CHOOSE r \in {[s3 EXCEPT !.last_sync = isoformat(now),
                                 !.ret = [op |-> "sync_now", val |-> "True"]] :
                          s3 \in pushed} : TRUE

(***************************************************************************)
(* The store driven call by call: every handler runs to its return before  *)
(* the next one starts.                                                    *)
(***************************************************************************)
\* The create calls the model issues: two calls for the same (project,
\* name) with different fields, a subtask of that task, a second project,
\* a call without a project, and a task whose parent is the subtask.
CreateRequests ==
    { [task_name |-> "c", description |-> "", category |-> "general",
       project_path |-> "a", priority |-> 0, parent_task_id |-> None],
      [task_name |-> "c", description |-> "d", category |-> "bug",
       project_path |-> "a", priority |-> 5, parent_task_id |-> None],
      [task_name |-> "b:c", description |-> "", category |-> "general",
       project_path |-> "a", priority |-> 5, parent_task_id |-> "#a:c"],
      [task_name |-> "c", description |-> "", category |-> "bug",
       project_path |-> "a:b", priority |-> 0, parent_task_id |-> None],
      [task_name |-> "c", description |-> "", category |-> "general",
       project_path |-> None, priority |-> 5, parent_task_id |-> ""],
      [task_name |-> "d", description |-> "", category |-> "general",
       project_path |-> None, priority |-> 0, parent_task_id |-> "#a:b:c"] }

TaskIds ==
    {_task_id_from_name(r.task_name,
                        IF Truthy(r.project_path) THEN r.project_path ELSE "") :
        r \in CreateRequests}

\* The status updates the model issues; "blocked" is a status outside the
\* three the data model names, which the store accepts like any other.
StatusRequests ==
    { [status |-> "pending", report |-> None],
      [status |-> "in_progress", report |-> None],
      [status |-> "completed", report |-> None],
      [status |-> "completed", report |-> "x"],
      [status |-> "completed", report |-> "y"],
      [status |-> "blocked", report |-> None] }

ProjectNames == {"A"}
Descriptions == {"", "d"}

Init ==
    /\ tasks = EmptyDir
    /\ projects = EmptyDir
    /\ index = EmptyTree
    /\ head = EmptyTree
    /\ commits = 1
    /\ clock = 1
    /\ call = [op |-> "init"]
    /\ ret = [op |-> "init", val |-> None]
    /\ steps = <<>>
    /\ remote = FALSE
    /\ remote_url = None
    /\ origin_url = None
    /\ origin = EmptyTree
    /\ base = EmptyTree
    /\ ahead = 0
    /\ behind = 0
    /\ rebase = NoRebase
    /\ last_sync = None
    /\ pc = [t \in {} |-> "idle"]
    /\ local = [t \in {} |-> None]
    /\ req = [t \in {} |-> None]
    /\ issued = <<>>
    /\ lpc = "off"
    /\ result = [top |-> <<>>, out |-> <<>>]
    /\ snapshots = <<>>
    /\ NoScheduler
    /\ syncpc = "off"

CreateTask ==
    \E r \in CreateRequests :
        /\ commits < MaxCommits
        /\ StoreCall(create_task(Cur, clock, FALSE, r.task_name, r.description,
                               r.category, r.project_path, r.priority,
                               r.parent_task_id))
        /\ call' = [op |-> "create_task", args |-> r,
                    replaced |-> Get(tasks,
                                     _task_id_from_name(
                                         r.task_name,
                                         IF Truthy(r.project_path)
                                         THEN r.project_path ELSE ""),
                                     Absent)]
        /\ clock' = clock + 1

UpdateTaskStatus ==
    \E task_id \in TaskIds, r \in StatusRequests :
        /\ commits < MaxCommits
        /\ StoreCall(update_task_status(Cur, clock, FALSE, task_id, r.status, r.report))
        /\ call' = [op |-> "update_task_status", task_id |-> task_id, args |-> r,
                    found |-> Get(tasks, task_id, Absent)]
        /\ clock' = IF task_id \in DOMAIN tasks /\ r.status = "completed"
                    THEN clock + 1 ELSE clock

DeleteTask ==
    \E task_id \in TaskIds :
        /\ commits < MaxCommits
        /\ StoreCall(delete_task(Cur, FALSE, task_id))
        /\ call' = [op |-> "delete_task", task_id |-> task_id]
        /\ clock' = clock

CreateProject ==
    \E project_name \in ProjectNames, description \in Descriptions :
        /\ commits < MaxCommits
        /\ StoreCall(create_project(Cur, clock, FALSE, project_name, description))
        /\ call' = [op |-> "create_project", project_name |-> project_name,
                    description |-> description]
        /\ clock' = clock + 1

Next == CreateTask \/ UpdateTaskStatus \/ DeleteTask \/ CreateProject

Spec == Init /\ [][Next]_vars

(***************************************************************************)
(* Arguments the listing and statistics properties range over.            *)
(***************************************************************************)
FilterStatuses == {None, "pending", "completed"}
FilterProjects == {None, "", "a", "a:b"}
FilterCategories == {None, "bug"}
Limits == {1, 100}

Listings(include_subtasks) ==
    {get_tasks(Cur, FALSE, st, p, c, l, include_subtasks) :
        st \in FilterStatuses, p \in FilterProjects,
        c \in FilterCategories, l \in Limits}

(***************************************************************************)
(* C1.  list (get_tasks) returns tasks ordered by priority descending and, *)
(* among tasks of equal priority, by created_at descending, for every set  *)
(* of stored tasks.                                                        *)
(***************************************************************************)
OrderedAsSpecified(listing) ==
    \A i, j \in 1..Len(listing) :
        i < j =>
            \/ listing[i].task.priority > listing[j].task.priority
            \/ /\ listing[i].task.priority = listing[j].task.priority
               /\ ~StrLess(listing[i].task.created_at,
                           listing[j].task.created_at)

C1_ListPriorityDescending ==
    \A include_subtasks \in BOOLEAN :
        \A listing \in Listings(include_subtasks) : OrderedAsSpecified(listing)

(***************************************************************************)
(* C2.  delete(P) on a task P that has subtasks removes P's document and   *)
(* the document of every task whose parent id is P: afterwards neither P   *)
(* nor a former subtask of P is returned by get(id) or by                  *)
(* list(include_subtasks=true).                                            *)
(***************************************************************************)
Listed(s, task_id) ==
    \E i \in 1..Len(get_tasks(s, FALSE, None, None, None, 100, TRUE)) :
        get_tasks(s, FALSE, None, None, None, 100, TRUE)[i].task.id = task_id

Gone(s, task_id) ==
    /\ task_id \notin DOMAIN s.tasks
    /\ ~Listed(s, task_id)

C2_DeleteCascades ==
    [][(call'.op = "delete_task" /\ ret'.val = "True") =>
          /\ Gone(Cur', call'.task_id)
          /\ \A c \in DOMAIN tasks :
                tasks[c].parent_task_id = call'.task_id => Gone(Cur', c)]_vars

(***************************************************************************)
(* C3.  For every stored task, completed_at is non-null if and only if     *)
(* status = completed, in every reachable state.                           *)
(***************************************************************************)
C3_CompletedAtIffCompleted ==
    \A id \in DOMAIN tasks :
        (tasks[id].completed_at # None) <=> (tasks[id].status = "completed")

(***************************************************************************)
(* C4.  create is idempotent on identity: a create call for a (project,    *)
(* name) pair returns the id derived from the pair, and afterwards exactly *)
(* the document built from that call's own arguments is stored under the   *)
(* id (status pending, completed_at and completion_report null), whatever  *)
(* document an earlier create left there; no other document changes.       *)
(***************************************************************************)
DocumentOfCall(r, now) ==
    [id |-> ret'.val, task_name |-> r.task_name,
     description |-> r.description, category |-> r.category,
     status |-> "pending", project_path |-> r.project_path,
     parent_task_id |-> r.parent_task_id, created_at |-> isoformat(now),
     completed_at |-> None, priority |-> r.priority,
     completion_report |-> None]

SamePair(r, d) ==
    r.task_name = d.task_name /\ r.project_path = d.project_path

C4_CreateOverwrites ==
    [][call'.op = "create_task" =>
          /\ ret'.op = "create_task"
          /\ \A id \in DOMAIN tasks :
                SamePair(call'.args, tasks[id]) => ret'.val = id
          /\ DOMAIN tasks' = DOMAIN tasks \cup {ret'.val}
          /\ tasks'[ret'.val] = DocumentOfCall(call'.args, clock)
          /\ \A id \in DOMAIN tasks \ {ret'.val} : tasks'[id] = tasks[id]]_vars

\* A second create for a stored (project, name) pair has just replaced a
\* completed document that had other fields.
C4_Witness ==
    /\ call.op = "create_task"
    /\ call.replaced # Absent
    /\ call.replaced.status = "completed"
    /\ call.replaced.priority = 0
    /\ DOMAIN tasks = {"#a:c"}
    /\ tasks["#a:c"].status = "pending"
    /\ tasks["#a:c"].created_at = isoformat(3)
    /\ tasks["#a:c"].priority = 5

(***************************************************************************)
(* C5.  stats(project) returns total equal to the number of task documents *)
(* stored for that project (subtasks included) and pending / in_progress / *)
(* completed equal to the number of those with that status; without a      *)
(* project the same holds over all stored documents.                       *)
(***************************************************************************)
DocsOf(project_path) ==
    {id \in DOMAIN tasks :
        ~Truthy(project_path) \/ tasks[id].project_path = project_path}

C6_ProjectCountsLive ==
    \A f \in DOMAIN projects :
        \A k \in {"total", "pending", "in_progress", "completed"} :
            projects[f][k] =
                get_project_stats(Cur, FALSE, projects[f]["project_path"])[k]

(***************************************************************************)
(* C29.  list_projects returns exactly one entry per project that has a    *)
(* project document or at least one task, with task_count, pending_count   *)
(* and completed_count recomputed from the current task documents on each  *)
(* call (never read from the stored snapshot), ordered by task_count       *)
(* descending.                                                             *)
(***************************************************************************)
ProjectList == get_all_projects(Cur, FALSE)

\* The projects that have a document or a task.
KnownProjects ==
    {projects[f]["project_path"] : f \in DOMAIN projects}
        \cup {tasks[id].project_path :
                 id \in {x \in DOMAIN tasks : Truthy(tasks[x].project_path)}}

TasksOf(project_path, statuses) ==
    {id \in DOMAIN tasks :
        tasks[id].project_path = project_path /\ tasks[id].status \in statuses}

AllStatuses == {tasks[id].status : id \in DOMAIN tasks}

C29_ListProjects ==
    /\ {ProjectList[i].project_path : i \in 1..Len(ProjectList)} = KnownProjects
    /\ Len(ProjectList) = Cardinality(KnownProjects)
    /\ \A i \in 1..Len(ProjectList) :
          LET e == ProjectList[i]
          IN  /\ e.task_count = Cardinality(TasksOf(e.project_path, AllStatuses))
              /\ e.pending_count = Cardinality(TasksOf(e.project_path, {"pending"}))
              /\ e.completed_count =
                    Cardinality(TasksOf(e.project_path, {"completed"}))
    /\ \A i, j \in 1..Len(ProjectList) :
          i < j => ProjectList[i].task_count >= ProjectList[j].task_count

\* Two projects are listed with different counts, one of them holds a
\* subtask, and a project file holds a total that is no longer true.
C29_Witness ==
    /\ Len(ProjectList) >= 2
    /\ ProjectList[1].task_count > ProjectList[2].task_count
    /\ \E id \in DOMAIN tasks :
          Truthy(tasks[id].project_path) /\ Truthy(tasks[id].parent_task_id)
    /\ \E f \in DOMAIN projects :
          projects[f]["total"] #
              Cardinality(TasksOf(projects[f]["project_path"], AllStatuses))

(***************************************************************************)
(* C35.  create_task in an existing project leaves that project's name,    *)
(* description and created_at unchanged, both in the project document and  *)
(* as reported by list_projects; only the counts and last_active of the    *)
(* project change.                                                         *)
(***************************************************************************)
\* The entry list_projects gives for a project.
EntryOf(listing, project_path) ==
    listing[CHOOSE i \in 1..Len(listing) :
                listing[i].project_path = project_path]

\* The fields of a project document that a create_task may change.
ProjectCounters ==
    {"total", "pending", "in_progress", "completed", "last_active"}

C35_CreateTaskKeepsProject ==
    [][(/\ call'.op = "create_task"
        /\ Truthy(call'.args.project_path)
        /\ PathName(call'.args.project_path) \in DOMAIN projects) =>
          LET p == call'.args.project_path
              f == PathName(p)
          IN  /\ f \in DOMAIN projects'
              /\ \A k \in DOMAIN projects[f] \ ProjectCounters :
                    /\ k \in DOMAIN projects'[f]
                    /\ projects'[f][k] = projects[f][k]
              /\ EntryOf(get_all_projects(Cur', FALSE), p).project_name =
                    EntryOf(get_all_projects(Cur, FALSE), p).project_name
              /\ EntryOf(get_all_projects(Cur', FALSE), p).description =
                    EntryOf(get_all_projects(Cur, FALSE), p).description]_vars

(***************************************************************************)
(* C36.  Two create calls with different (project, name) pairs never       *)
(* address the same document: assuming the hash itself is collision-free,  *)
(* derive_id separates project and name unambiguously, so pairs such as    *)
(* ("a:b", "c") and ("a", "b:c") get different ids and neither create      *)
(* overwrites the other's task.                                            *)
(***************************************************************************)
C36_PairsDoNotCollide ==
    [][call'.op = "create_task" =>
          \A id \in DOMAIN tasks :
              ~SamePair(call'.args, tasks[id]) =>
                  /\ ret'.val # id
                  /\ id \in DOMAIN tasks'
                  /\ tasks'[id] = tasks[id]]_vars

(***************************************************************************)
(* C10.  A stored task with a non-empty parent id is never a top-level     *)
(* element of list() when include_subtasks is false, whatever the filters, *)
(* and it is an element of subtasks(parent_id).                            *)
(***************************************************************************)
C10_SubtasksExcluded ==
    \A id \in DOMAIN tasks :
        Truthy(tasks[id].parent_task_id) =>
            /\ \A listing \in Listings(FALSE) :
                  \A i \in 1..Len(listing) : listing[i].task.id # id
            /\ \E i \in 1..Len(get_subtasks(Cur, tasks[id].parent_task_id)) :
                  get_subtasks(Cur, tasks[id].parent_task_id)[i] = tasks[id]

\* A subtask is stored beside its parent, and the default listing is not
\* empty.
C10_Witness ==
    /\ \E id \in DOMAIN tasks :
          /\ Truthy(tasks[id].parent_task_id)
          /\ tasks[id].parent_task_id \in DOMAIN tasks
    /\ Len(get_tasks(Cur, FALSE, None, None, None, 100, FALSE)) > 0

(***************************************************************************)
(* C11.  Hierarchy depth one: in every reachable state no task with a      *)
(* parent id is itself the parent of another task (a create naming a       *)
(* subtask, or the created task itself, as parent is not stored as given). *)
(***************************************************************************)
IsSubtask(d) == Truthy(d.parent_task_id)

C11_DepthOne ==
    \A p \in DOMAIN tasks, c \in DOMAIN tasks :
        (IsSubtask(tasks[c]) /\ tasks[c].parent_task_id = p) =>
            ~IsSubtask(tasks[p])

(***************************************************************************)
(* C12.  No task document is an orphan: every task with a parent id has a  *)
(* parent document that exists, and every stored task is a top-level item  *)
(* of the default list() or nested under a task that list() returns.       *)
(***************************************************************************)
DefaultList == get_tasks(Cur, FALSE, None, None, None, 100, FALSE)

Visible(id) ==
    \E i \in 1..Len(DefaultList) :
        \/ DefaultList[i].task.id = id
        \/ \E j \in 1..Len(DefaultList[i].subtasks) :
              DefaultList[i].subtasks[j].id = id

C12_NoOrphans ==
    \A id \in DOMAIN tasks :
        /\ IsSubtask(tasks[id]) => tasks[id].parent_task_id \in DOMAIN tasks
        /\ Visible(id)

(***************************************************************************)
(* C13.  update_status(id, completed, report = x) on an existing task, for *)
(* a non-empty x, returns true and leaves the document with status         *)
(* completed, completed_at non-null and completion_report = x, also when   *)
(* the task held an earlier report.                                        *)
(***************************************************************************)
C13_CompleteWithReport ==
    [][(/\ call'.op = "update_task_status"
        /\ call'.args.status = "completed"
        /\ Truthy(call'.args.report)
        /\ call'.task_id \in DOMAIN tasks) =>
          /\ ret' = [op |-> "update_task_status", val |-> "True"]
          /\ call'.task_id \in DOMAIN tasks'
          /\ tasks'[call'.task_id] =
                [tasks[call'.task_id] EXCEPT
                    !.status = "completed",
                    !.completed_at = isoformat(clock),
                    !.completion_report = call'.args.report]
          /\ tasks'[call'.task_id].completed_at # None]_vars

\* A task completed with one report has just been completed again with
\* another.
C13_Witness ==
    /\ call.op = "update_task_status"
    /\ call.args = [status |-> "completed", report |-> "y"]
    /\ call.found # Absent
    /\ call.found.completion_report = "x"
    /\ tasks[call.task_id].completion_report = "y"

(***************************************************************************)
(* C14.  completion_report is held only by completed tasks: in every       *)
(* reachable state a non-null completion_report implies status completed   *)
(* (an update away from completed clears the report).                      *)
(***************************************************************************)
C14_ReportOnlyWhenCompleted ==
    \A id \in DOMAIN tasks :
        tasks[id].completion_report # None => tasks[id].status = "completed"

(***************************************************************************)
(* C28.  Every stored task's status is one of pending, in_progress,        *)
(* completed in every state reachable through the store's operations: an   *)
(* update_status call with any other status value does not change the      *)
(* document.                                                               *)
(***************************************************************************)
Statuses == {"pending", "in_progress", "completed"}

C28_StatusInEnum ==
    \A id \in DOMAIN tasks : tasks[id].status \in Statuses

(***************************************************************************)
(* C39.  update_status changes only status, completed_at and               *)
(* completion_report of the addressed document: its id, name, description, *)
(* category, project, parent id, priority, created_at, session id and      *)
(* metadata, and every other task document, are unchanged.                 *)
(***************************************************************************)
\* The fields of a task document an update may change.
StatusFields == {"status", "completed_at", "completion_report"}

C39_UpdateFrame ==
    [][call'.op = "update_task_status" =>
          /\ DOMAIN tasks' = DOMAIN tasks
          /\ \A id \in DOMAIN tasks :
                /\ DOMAIN tasks'[id] = DOMAIN tasks[id]
                /\ \A k \in DOMAIN tasks[id] :
                      (id # call'.task_id \/ k \notin StatusFields) =>
                          tasks'[id][k] = tasks[id][k]]_vars

\* An update has just completed, with a report, a subtask of priority 5
\* created at an earlier instant, beside another stored task.
C39_Witness ==
    /\ call.op = "update_task_status"
    /\ ret = [op |-> "update_task_status", val |-> "True"]
    /\ call.found # Absent
    /\ call.found.priority = 5
    /\ Truthy(call.found.parent_task_id)
    /\ call.found.status = "pending"
    /\ tasks[call.task_id].status = "completed"
    /\ tasks[call.task_id].completion_report = "x"
    /\ tasks[call.task_id].completed_at # tasks[call.task_id].created_at
    /\ Cardinality(DOMAIN tasks) >= 2

(***************************************************************************)
(* C40.  In every reachable state each task document is stored under       *)
(* tasks/<id> where <id> equals the document's own id field and equals     *)
(* derive_id applied to the document's own project and name fields; no     *)
(* store operation changes the id, name or project of an existing          *)
(* document.                                                               *)
(***************************************************************************)
\* The id derived from a document's own project and name.
DerivedId(d) ==
    _task_id_from_name(d.task_name,
                       IF Truthy(d.project_path) THEN d.project_path ELSE "")

StoredUnderOwnId ==
    \A id \in DOMAIN tasks : tasks[id].id = id /\ DerivedId(tasks[id]) = id

IdentityKept ==
    \A id \in DOMAIN tasks \cap DOMAIN tasks' :
        /\ tasks'[id].id = tasks[id].id
        /\ tasks'[id].task_name = tasks[id].task_name
        /\ tasks'[id].project_path = tasks[id].project_path

C40_IdentityStable == [](StoredUnderOwnId) /\ [][IdentityKept]_vars


(***************************************************************************)
(* C18.  After create, update_status, delete or create_project returns     *)
(* with its git commands having succeeded, every file the operation wrote  *)
(* or removed is committed: the working tree holds no uncommitted change.  *)
(***************************************************************************)
C18_EverythingCommitted ==
    /\ index = head
    /\ WorkTree(Cur) = head

(***************************************************************************)
(* The first calls made on an empty store without a remote.  `issued`      *)
(* holds the calls made so far, in order.                                  *)
(***************************************************************************)
ScenarioProjects == {"app", "App"}
ScenarioNames == {"Fix login bug", "x"}
ScenarioPaths == {"app", None}
ScenarioUpdates ==
    { [status |-> "completed", report |-> "shipped"],
      [status |-> "in_progress", report |-> None] }

ScenarioIds ==
    {_task_id_from_name(n, IF Truthy(p) THEN p ELSE "") :
        n \in ScenarioNames, p \in ScenarioPaths}

ScenarioCall(s, c) ==
    /\ Len(issued) < MaxScenarioCalls
    /\ Install(s)
    /\ issued' = Append(issued, c)
    /\ clock' = clock + 1
    /\ UNCHANGED <<pc, local, req, syncpc, listVars, schedVars>>

ScenarioCreateProject ==
    \E project_name \in ScenarioProjects :
        LET c == [op |-> "create_project", project_name |-> project_name]
        IN  /\ ScenarioCall(create_project(Cur, clock, FALSE, project_name, ""), c)
            /\ call' = c

ScenarioCreateTask ==
    \E task_name \in ScenarioNames, project_path \in ScenarioPaths :
        LET c == [op |-> "create_task", task_name |-> task_name,
                  project_path |-> project_path]
        IN  /\ ScenarioCall(create_task(Cur, clock, FALSE, task_name, "",
                                        "general", project_path, 0, None), c)
            /\ call' = c

ScenarioUpdateTaskStatus ==
    \E task_id \in ScenarioIds, r \in ScenarioUpdates :
        LET c == [op |-> "update_task_status", task_id |-> task_id, args |-> r]
        IN  /\ ScenarioCall(update_task_status(Cur, clock, FALSE, task_id,
                                               r.status, r.report), c)
            /\ call' = c

ScenarioDeleteTask ==
    \E task_id \in ScenarioIds :
        LET c == [op |-> "delete_task", task_id |-> task_id]
        IN  /\ ScenarioCall(delete_task(Cur, FALSE, task_id), c)
            /\ call' = c

NextScenario ==
    \/ ScenarioCreateProject
    \/ ScenarioCreateTask
    \/ ScenarioUpdateTaskStatus
    \/ ScenarioDeleteTask

SpecScenario == Init /\ [][NextScenario]_vars

(***************************************************************************)
(* C30.  Starting from an empty store, the sequence create project "app";  *)
(* create task "Fix login bug" in "app" (returning id t1);                 *)
(* list(project = app) yields exactly one task, t1, with status pending;   *)
(* then update_status(t1, completed, "shipped") returns true, after which  *)
(* get(t1) has completed_at set and completion_report = "shipped", and     *)
(* stats(app) reports total = 1, completed = 1 and pending = 0.            *)
(***************************************************************************)
t1 == _task_id_from_name("Fix login bug", "app")

AppCreated ==
    <<[op |-> "create_project", project_name |-> "app"],
      [op |-> "create_task", task_name |-> "Fix login bug",
       project_path |-> "app"]>>

AppShipped ==
    Append(AppCreated,
           [op |-> "update_task_status", task_id |-> t1,
            args |-> [status |-> "completed", report |-> "shipped"]])

AppList == get_tasks(Cur, FALSE, None, "app", None, 100, FALSE)

AppStats == get_project_stats(Cur, FALSE, "app")

C30_Scenario ==
    /\ issued = <<AppCreated[1]>> => ret.val = "app"
    /\ issued = AppCreated =>
          /\ ret.val = t1
          /\ Len(AppList) = 1
          /\ AppList[1].task.id = t1
          /\ AppList[1].task.status = "pending"
    /\ issued = AppShipped =>
          /\ ret.val = "True"
          /\ t1 \in DOMAIN tasks
          /\ get_task_by_id(Cur, t1).completed_at # None
          /\ get_task_by_id(Cur, t1).completion_report = "shipped"
          /\ AppStats["total"] = 1
          /\ AppStats["completed"] = 1
          /\ AppStats["pending"] = 0

\* The whole sequence has been run.
C30_Witness ==
    /\ issued = AppShipped
    /\ ret = [op |-> "update_task_status", val |-> "True"]
    /\ t1 \in DOMAIN tasks

(***************************************************************************)
(* The store and the sync manager on a clone of a remote repository that   *)
(* another clone pushes to.  Every handler runs to its return before the   *)
(* next one starts; `net` tells whether the remote answers during a call.  *)
(***************************************************************************)
Fresh ==
    [tasks |-> EmptyDir, projects |-> EmptyDir, index |-> EmptyTree,
     head |-> EmptyTree, commits |-> 1, ret |-> [op |-> "init", val |-> None],
     remote |-> FALSE, remote_url |-> None, origin_url |-> None,
     origin |-> EmptyTree,
     base |-> EmptyTree, ahead |-> 0, behind |-> 0, rebase |-> NoRebase,
     last_sync |-> None, log |-> <<>>]

\* The repository the clone was made from: one task, created and committed
\* by the store.
Seed == create_task(Fresh, 1, FALSE, "c", "", "general", "a", 0, None)

SeedId == "#a:c"

InitGit ==
    /\ tasks = Seed.head.tasks
    /\ projects = Seed.head.projects
    /\ index = Seed.head
    /\ head = Seed.head
    /\ commits = Seed.commits
    /\ clock = 2
    /\ call = [op |-> "init"]
    /\ ret = [op |-> "init", val |-> None]
    /\ steps = <<>>
    /\ remote = TRUE
    /\ remote_url = "url"
    /\ origin_url = "url"
    /\ origin = Seed.head
    /\ base = Seed.head
    /\ ahead = 0
    /\ behind = 0
    /\ rebase = NoRebase
    /\ last_sync = None
    /\ pc = [t \in {} |-> "idle"]
    /\ local = [t \in {} |-> None]
    /\ req = [t \in {} |-> None]
    /\ issued = <<>>
    /\ lpc = "off"
    /\ result = [top |-> <<>>, out |-> <<>>]
    /\ snapshots = <<>>
    /\ NoScheduler
    /\ syncpc = "off"

GitStatusRequests ==
    { [status |-> "in_progress", report |-> None],
      [status |-> "completed", report |-> "x"] }

\* What the other clone pushes: a status change of the seed task.
RemoteStatuses == {"in_progress", "blocked"}

\* The calls of one run: bounded by the commits made and the instants read.
GitBudget == commits < MaxGitCommits /\ clock < MaxGitClock

GitCreateTask ==
    \E net \in BOOLEAN :
        /\ GitBudget
        /\ StoreCall(create_task(Cur, clock, net, "b:c", "", "general", "a", 5,
                               SeedId))
        /\ call' = [op |-> "create_task", net |-> net]
        /\ clock' = clock + 1

GitUpdateTaskStatus ==
    \E net \in BOOLEAN, r \in GitStatusRequests :
        /\ GitBudget
        /\ StoreCall(update_task_status(Cur, clock, net, SeedId, r.status,
                                      r.report))
        /\ call' = [op |-> "update_task_status", task_id |-> SeedId,
                    args |-> r, net |-> net]
        /\ clock' = IF ret'.val = "True" /\ r.status = "completed"
                    THEN clock + 1 ELSE clock

GitDeleteTask ==
    \E net \in BOOLEAN :
        /\ GitBudget
        /\ StoreCall(delete_task(Cur, net, SeedId))
        /\ call' = [op |-> "delete_task", task_id |-> SeedId, net |-> net]
        /\ clock' = clock

StoreSync ==
    \E net \in BOOLEAN :
        /\ GitBudget
        /\ StoreCall(sync(Cur, net))
        /\ call' = [op |-> "sync", net |-> net]
        /\ clock' = clock

SyncNow ==
    \E net \in BOOLEAN :
        /\ GitBudget
        /\ StoreCall(sync_now(Cur, clock, net, TRUE))
        /\ call' = [op |-> "sync_now", net |-> net]
        /\ clock' = clock + 1

\* The other clone pushes a commit to the remote branch.
RemoteCommit ==
    \E st \in RemoteStatuses :
        /\ behind < MaxBehind
        /\ SeedId \in DOMAIN origin.tasks
        /\ origin.tasks[SeedId].status # st
        /\ origin' = [origin EXCEPT !.tasks[SeedId].status = st]
        /\ behind' = behind + 1
        /\ call' = [op |-> "remote_commit"]
        /\ UNCHANGED <<tasks, projects, index, head, commits, clock, ret,
                       steps, remote, remote_url, origin_url, base, ahead,
                       rebase, last_sync, concVars>>

NextGit ==
    \/ GitCreateTask
    \/ GitUpdateTaskStatus
    \/ GitDeleteTask
    \/ StoreSync
    \/ SyncNow
    \/ RemoteCommit

SpecGit == InitGit /\ [][NextGit]_vars

(***************************************************************************)
(* Initialisation.  Before clone_or_init the repository path holds no      *)
(* repository (`commits` is 0): it is missing, or a directory without      *)
(* .git.  The remote repository holds the seed task; its URL is configured *)
(* or not.  After the initialisation the calls of SpecGit follow.          *)
(***************************************************************************)
\* setup_remote: `origin` is removed if there is one and added with the URL.
setup_remote(s, url) == [s EXCEPT !.origin_url = url, !.remote_url = url]

\* _init_repo: git init, the base layout and the initial commit; a
\* configured URL is added as `origin`, which gives the new branch no
\* upstream, so pulls and pushes find nothing to work with.
_init_repo(s) ==
    [(IF Truthy(s.remote_url) THEN setup_remote(s, s.remote_url) ELSE s) EXCEPT
              !.tasks = EmptyDir, !.projects = EmptyDir,
              !.index = EmptyTree, !.head = EmptyTree, !.commits = 1,
              !.remote = FALSE, !.base = EmptyTree,
              !.ret = [op |-> "clone_or_init", val |-> "True"]]

\* _clone_repo: git clone; when it fails, _init_repo.
_clone_repo(s, net) ==
    IF net
    THEN [s EXCEPT !.tasks = s.origin.tasks, !.projects = s.origin.projects,
                   !.index = s.origin, !.head = s.origin,
                   !.commits = Seed.commits, !.remote = TRUE,
                   !.origin_url = s.remote_url,
                   !.base = s.origin, !.ahead = 0, !.behind = 0,
                   !.ret = [op |-> "clone_or_init", val |-> "True"]]
    ELSE _init_repo(s)

\* clone_or_init; `path` tells what is at repo_path: "missing", a "dir"
\* without .git, or a "repo".
clone_or_init(s, path, net) ==
    IF path = "repo"
    THEN [s EXCEPT !.ret = [op |-> "clone_or_init", val |-> "True"]]
    ELSE IF path = "dir" THEN _init_repo(s)
    ELSE IF Truthy(s.remote_url) THEN _clone_repo(s, net)
    ELSE _init_repo(s)

Ready == commits > 0

\* GitTaskStorage._ensure_repo_exists: when the path holds no .git, git
\* init, the ignore file and the first commit; no remote is added.
_ensure_repo_exists(s) ==
    IF s.commits > 0 THEN s
    ELSE [s EXCEPT !.tasks = EmptyDir, !.projects = EmptyDir,
                   !.index = EmptyTree, !.head = EmptyTree, !.commits = 1,
                   !.remote = FALSE, !.origin_url = None, !.base = EmptyTree]

InitSetup ==
    /\ tasks = EmptyDir
    /\ projects = EmptyDir
    /\ index = EmptyTree
    /\ head = EmptyTree
    /\ commits = 0
    /\ clock = 2
    /\ call = [op |-> "init"]
    /\ ret = [op |-> "init", val |-> None]
    /\ steps = <<>>
    /\ remote = FALSE
    /\ remote_url \in {None, "url"}
    /\ origin_url = None
    /\ origin = Seed.head
    /\ base = EmptyTree
    /\ ahead = 0
    /\ behind = 0
    /\ rebase = NoRebase
    /\ last_sync = None
    /\ pc = [t \in {} |-> "idle"]
    /\ local = [t \in {} |-> None]
    /\ req = [t \in {} |-> None]
    /\ issued = <<>>
    /\ lpc = "off"
    /\ result = [top |-> <<>>, out |-> <<>>]
    /\ snapshots = <<>>
    /\ NoScheduler
    /\ syncpc = "off"

CloneOrInit ==
    \E found \in {"missing", "dir"}, net \in BOOLEAN :
        LET path == IF Ready THEN "repo" ELSE found
        IN  /\ StoreCall(clone_or_init(Cur, path, net))
            /\ call' = [op |-> "clone_or_init", path |-> path, net |-> net]
            /\ clock' = clock

\* GitTaskStorage(repo_path): the store is built on the path, before or
\* after the sync manager's initialisation.
EnsureRepoExists ==
    /\ StoreCall([_ensure_repo_exists(Cur) EXCEPT
                     !.ret = [op |-> "_ensure_repo_exists", val |-> None]])
    /\ call' = [op |-> "_ensure_repo_exists", found |-> Ready]
    /\ clock' = clock

ReadyCall == Ready /\ NextGit

NextSetup == CloneOrInit \/ EnsureRepoExists \/ ReadyCall

SpecSetup == InitSetup /\ [][NextSetup]_vars

(***************************************************************************)
(* C24.  Initialisation takes an uninitialised repository path to READY by *)
(* cloning from the remote whenever a remote URL is known, and only when   *)
(* no remote is known by creating an empty repository with the base layout *)
(* (tasks/, projects/, ignore file) and an initial commit.                 *)
(***************************************************************************)
Cloned ==
    /\ remote'
    /\ head' = origin
    /\ index' = origin
    /\ WorkTree(Cur') = origin

InitialisedEmpty ==
    /\ ~remote'
    /\ commits' = 1
    /\ head' = EmptyTree
    /\ WorkTree(Cur') = EmptyTree

C24_CloneWhenRemoteKnown ==
    [][(call'.op = "clone_or_init" /\ ~Ready) =>
          /\ Ready'
          /\ ret'.val = "True"
          /\ IF Truthy(remote_url) THEN Cloned ELSE InitialisedEmpty]_vars

(***************************************************************************)
(* C25.  An explicitly requested sync with no remote configured is         *)
(* surfaced as a failure immediately: the call returns a failure result,   *)
(* runs no pull, commit or push, and leaves last_sync_time unchanged.      *)
(***************************************************************************)
C25_NoRemoteSyncFails ==
    [][(call'.op = "sync_now" /\ ~Truthy(remote_url)) =>
          /\ ret' = [op |-> "sync_now", val |-> "False"]
          /\ steps' = <<>>
          /\ UNCHANGED <<tasks, projects, index, head, commits, origin, base,
                         ahead, behind, rebase, last_sync>>]_vars

\* sync_now has just returned False on a repository without a remote URL
\* whose working tree holds changes a sync would have committed.
C25_Witness ==
    /\ call.op = "sync_now"
    /\ remote_url = None
    /\ ret = [op |-> "sync_now", val |-> "False"]
    /\ StatusPorcelain(Cur)
    /\ last_sync = None

(***************************************************************************)
(* C37.  Whenever clone_or_init has returned True for a sync manager that  *)
(* has a remote URL, the repository's origin remote is that URL, so the    *)
(* remote reported by status() is the one pull and push actually use --    *)
(* including when the repository directory already contained a git         *)
(* repository (for example one created earlier by the store's own          *)
(* initialisation).                                                        *)
(***************************************************************************)
\* get_status()["remote_url"]
StatusRemote == remote_url

C37_OriginIsConfiguredUrl ==
    [][(/\ call'.op = "clone_or_init"
        /\ ret'.val = "True"
        /\ Truthy(remote_url')) =>
          origin_url' = StatusRemote']_vars

(***************************************************************************)
(* C9.  When a pull hits a rebase conflict the rebase is aborted: after    *)
(* the pull returns the working tree and HEAD equal the pre-pull committed *)
(* state, no rebase is in progress, and no later step of the operation     *)
(* commits or pushes conflicted files.                                     *)
(***************************************************************************)
HasMarkers(tree) == \E path \in Paths(tree) : At(tree, path) = Conflicted

C9_RebaseAborted ==
    /\ ~rebase.active
    /\ ~HasMarkers(WorkTree(Cur))
    /\ ~HasMarkers(head)
    /\ ~HasMarkers(origin)

(***************************************************************************)
(* C15.  update_status(id, ...) and delete(id) on an id that has no        *)
(* document return false and get(id) returns the not-found value; the      *)
(* documents, their contents and the commit history are unchanged by the   *)
(* call.                                                                   *)
(***************************************************************************)
C15_NotFoundChangesNothing ==
    [][(/\ call'.op \in {"update_task_status", "delete_task"}
        /\ call'.task_id \notin DOMAIN tasks) =>
          /\ ret' = [op |-> call'.op, val |-> "False"]
          /\ get_task_by_id(Cur', call'.task_id) = None
          /\ UNCHANGED <<tasks, projects, index, head, commits, origin, base,
                         ahead, behind, rebase>>]_vars

\* A delete of the task that is no longer stored has just returned False
\* while the remote answered and held a commit the clone lacks.
C15_Witness ==
    /\ call.op = "delete_task"
    /\ call.net
    /\ ret = [op |-> "delete_task", val |-> "False"]
    /\ SeedId \notin DOMAIN tasks
    /\ behind > 0

(***************************************************************************)
(* C23.  A scheduler sync cycle performs, in this order, a pull, then --   *)
(* only if the working tree has uncommitted changes -- exactly one         *)
(* maintenance commit that contains all of them, then a push; it makes no  *)
(* commit when the tree is clean, and after a cycle whose git commands     *)
(* succeed the working tree has no uncommitted change.                     *)
(***************************************************************************)
\* The pull and the push of the cycle just made both exited 0.
CycleSucceeded ==
    /\ GitPullRebase(Cur, call'.net).ok
    /\ ahead' = 0
    /\ origin' = head'

C23_SyncCycle ==
    [][(call'.op = "sync_now" /\ ret'.val = "True") =>
          /\ steps' \in {<<"pull", "push">>, <<"pull", "add", "commit", "push">>}
          /\ StatusPorcelain(Cur) =>
                /\ steps' = <<"pull", "add", "commit", "push">>
                /\ head' = WorkTree(Cur')
          /\ ~StatusPorcelain(Cur) =>
                /\ steps' = <<"pull", "push">>
                /\ ahead' <= ahead
          /\ CycleSucceeded => ~StatusPorcelain(Cur')]_vars

(***************************************************************************)
(* C31.  sync_now returns True, and records a new last_sync time, only     *)
(* when the pull and (if push was requested) the push both succeeded; when *)
(* either git command exits non-zero it returns False and last_sync is     *)
(* unchanged.                                                              *)
(***************************************************************************)
\* The pull of the sync_now just made, and the push it ran on what the pull
\* and the sweep commit left.
PullOf(s, net) == GitPullRebase(s, net)

PushOf(s, net) ==
    LET s1 == PullOf(s, net).s
        s2 == IF StatusPorcelain(s1) THEN GitCommit(GitAddAll(s1)) ELSE s1
    IN  GitPush(s2, net)

C31_SyncResultTellsSuccess ==
    [][(call'.op = "sync_now" /\ Truthy(remote_url)) =>
          /\ ret'.val = "True" <=>
                (PullOf(Cur, call'.net).ok /\ PushOf(Cur, call'.net).ok)
          /\ ret'.val = "True" => last_sync' = isoformat(clock)
          /\ ret'.val # "True" =>
                (ret'.val = "False" /\ last_sync' = last_sync)]_vars

(***************************************************************************)
(* C26.  A task file that fails to parse is excluded from list, subtasks,  *)
(* stats and list_projects results without failing the scan, and every     *)
(* such skip increments a skipped-count that the caller can observe.       *)
(***************************************************************************)
Corrupt == {id \in DOMAIN tasks : ~Parses(tasks[id])}

\* The store with the files that do not parse taken away.
WithoutCorrupt ==
    [Cur EXCEPT !.tasks = [id \in DOMAIN tasks \ Corrupt |-> tasks[id]]]

\* Everything the four scans hand to their caller.
Observed(s) ==
    [list |-> get_tasks(s, FALSE, None, None, None, 100, TRUE),
     subtasks |-> get_subtasks(s, SeedId),
     stats |-> get_project_stats(s, FALSE, None),
     projects |-> get_all_projects(s, FALSE)]

C26_SkipsCounted ==
    Corrupt # {} => Observed(Cur) # Observed(WithoutCorrupt)

(***************************************************************************)
(* C27.  When the pull or the push of a store mutation fails, or no remote *)
(* is configured, the mutation still writes its document, makes its local  *)
(* commit and returns its normal success result (the id for create, true   *)
(* for update_status and delete).                                          *)
(***************************************************************************)
\* The id the mutation just made works on.
Target == IF call'.op = "create_task" THEN "#a:b:c" ELSE call'.task_id

\* A mutation has just been made on a document it can work on: a create,
\* or an update or delete of a task whose file exists and parses.
Mutated ==
    /\ call'.op \in {"create_task", "update_task_status", "delete_task"}
    /\ call'.op # "create_task" =>
          call'.task_id \in DOMAIN tasks /\ Parses(tasks[call'.task_id])

C27_LocalCommitSurvivesRemoteFailure ==
    [][Mutated =>
          /\ ret'.val = IF call'.op = "create_task" THEN Target ELSE "True"
          /\ call'.op = "create_task" =>
                Target \in DOMAIN tasks' /\ tasks'[Target].status = "pending"
          /\ call'.op = "update_task_status" =>
                tasks'[Target].status = call'.args.status
          /\ call'.op = "delete_task" => Target \notin DOMAIN tasks'
          /\ At(head', <<"tasks", Target>>) =
                At(WorkTree(Cur'), <<"tasks", Target>>)]_vars

(***************************************************************************)
(* C38.  delete(id) returns true and removes the document whenever a file  *)
(* for that id exists, including when the file's content cannot be parsed; *)
(* a corrupt document can therefore always be removed through the store.   *)
(***************************************************************************)
C38_DeleteRemovesAnyFile ==
    [][(call'.op = "delete_task" /\ call'.task_id \in DOMAIN tasks) =>
          /\ ret' = [op |-> "delete_task", val |-> "True"]
          /\ call'.task_id \notin DOMAIN tasks']_vars

(***************************************************************************)
(* C17.  Every store mutation (create, update_status, delete) performs its *)
(* steps in the order pull, then write or remove the document files, then  *)
(* commit, then push, all before it returns; no document file of the       *)
(* operation is written before that operation's pull.                      *)
(***************************************************************************)
StepRank(event) ==
    CASE event = "pull" -> 1
      [] event \in {"write", "remove"} -> 2
      [] event \in {"add", "commit"} -> 3
      [] event = "push" -> 4

Ran(event) == \E i \in 1..Len(steps) : steps[i] = event

C17_PullWriteCommitPush ==
    (/\ call.op \in {"create_task", "update_task_status", "delete_task"}
     /\ ret.val # "False") =>
        /\ Ran("pull")
        /\ Ran("write") \/ Ran("remove")
        /\ Ran("commit")
        /\ Ran("push")
        /\ \A i \in 1..Len(steps), j \in 1..Len(steps) :
              i < j => StepRank(steps[i]) <= StepRank(steps[j])

(***************************************************************************)
(* A get_tasks call beside mutations.  The request threads share the       *)
(* working tree without a lock, so mutations run between the steps of a    *)
(* listing: its directory scan, and the get_subtasks scan it makes for     *)
(* each task it returns.  Each scan and each mutation is taken as one      *)
(* step.  The repository has no remote.                                    *)
(***************************************************************************)
SubtaskId == "#a:b:c"

InitList ==
    /\ tasks = Seed.tasks
    /\ projects = Seed.projects
    /\ index = Seed.index
    /\ head = Seed.head
    /\ commits = Seed.commits
    /\ clock = 2
    /\ call = [op |-> "init"]
    /\ ret = [op |-> "init", val |-> None]
    /\ steps = <<>>
    /\ remote = FALSE
    /\ remote_url = None
    /\ origin_url = None
    /\ origin = EmptyTree
    /\ base = EmptyTree
    /\ ahead = 0
    /\ behind = 0
    /\ rebase = NoRebase
    /\ last_sync = None
    /\ pc = [t \in {} |-> "idle"]
    /\ local = [t \in {} |-> None]
    /\ req = [t \in {} |-> None]
    /\ issued = <<>>
    /\ syncpc = "off"
    /\ lpc = "idle"
    /\ result = [top |-> <<>>, out |-> <<>>]
    /\ snapshots = <<>>
    /\ NoScheduler

\* A mutation handler runs to its return, at an instant of its own; the
\* listing in progress, if any, has one more instant of the store to be
\* compared with.
Mutation(s) ==
    /\ clock < MaxListClock
    /\ clock' = clock + 1
    /\ Install(s)
    /\ snapshots' = IF lpc \in {"scan", "subtasks"}
                    THEN Append(snapshots, s.tasks) ELSE snapshots
    /\ UNCHANGED <<pc, local, req, issued, syncpc, lpc, result, schedVars>>

ListCreateTask ==
    /\ Mutation(create_task(Cur, clock, FALSE, "b:c", "", "general", "a", 5,
                            SeedId))
    /\ call' = [op |-> "create_task"]

ListUpdateTaskStatus ==
    \E task_id \in {SeedId, SubtaskId} :
        /\ Mutation(update_task_status(Cur, clock, FALSE, task_id,
                                       "in_progress", None))
        /\ call' = [op |-> "update_task_status", task_id |-> task_id]

ListDeleteTask ==
    \E task_id \in {SeedId, SubtaskId} :
        /\ Mutation(delete_task(Cur, FALSE, task_id))
        /\ call' = [op |-> "delete_task", task_id |-> task_id]

ListStep(label, built) ==
    /\ lpc' = label
    /\ result' = built
    /\ UNCHANGED <<tasks, projects, index, head, commits, clock, call, ret,
                   steps, gitVars, pc, local, req, issued, syncpc, schedVars>>

\* get_tasks() is entered; _git_pull finds no remote.
G_Call ==
    /\ lpc = "idle"
    /\ ListStep("scan", result)
    /\ snapshots' = <<tasks>>

\* The loop over tasks_dir.glob("*.json"), the sort and tasks[:limit].
G_Scan ==
    /\ lpc = "scan"
    /\ LET top == ScanTasks(Cur, None, None, None, 100, FALSE)
       IN  ListStep(IF top = <<>> THEN "return" ELSE "subtasks",
                    [top |-> top, out |-> <<>>])
    /\ UNCHANGED snapshots

\* task['subtasks'] = self.get_subtasks(task['id']) for the next task.
G_Subtasks ==
    /\ lpc = "subtasks"
    /\ LET i == Len(result.out) + 1
           entry == [task |-> result.top[i],
                     subtasks |-> get_subtasks(Cur, result.top[i].id)]
       IN  ListStep(IF i = Len(result.top) THEN "return" ELSE "subtasks",
                    [result EXCEPT !.out = Append(@, entry)])
    /\ UNCHANGED snapshots

NextList ==
    \/ ListCreateTask
    \/ ListUpdateTaskStatus
    \/ ListDeleteTask
    \/ G_Call
    \/ G_Scan
    \/ G_Subtasks

SpecList == InitList /\ [][NextList]_vars

(***************************************************************************)
(* C16.  A list() call that runs concurrently with mutations returns a     *)
(* consistent snapshot: the returned top-level tasks and the subtasks      *)
(* nested under them equal the store contents at one single instant        *)
(* between the call and its return.                                        *)
(***************************************************************************)
ListOf(dir) ==
    get_tasks([Cur EXCEPT !.tasks = dir], FALSE, None, None, None, 100, FALSE)

C16_ConsistentSnapshot ==
    lpc = "return" =>
        \E k \in 1..Len(snapshots) : result.out = ListOf(snapshots[k])

(***************************************************************************)
(* The clone with its scheduler running for ever: the store calls and the  *)
(* commits of the other clone are those of SpecGit, and _sync_loop calls   *)
(* sync_now again and again, with the remote answering or not.  The loop   *)
(* keeps running, and the remote answers some cycle again and again.       *)
(***************************************************************************)
\* One cycle of _sync_loop; `pending` is the number of commits the earlier
\* pushes left unpushed.
SchedulerSync(net) ==
    \E s \in {sync_now(Cur, clock, net, TRUE)} :
        /\ StoreCall(s)
        /\ call' = [op |-> "sync_now", net |-> net, pending |-> ahead]
        /\ clock' = clock

SchedulerSyncOffline == SchedulerSync(FALSE)

SchedulerSyncOnline == SchedulerSync(TRUE)

\* The other clone pushes, within the commits of one run.
LiveRemoteCommit == commits + behind < MaxGitCommits /\ RemoteCommit

NextLive ==
    \/ GitCreateTask
    \/ GitUpdateTaskStatus
    \/ GitDeleteTask
    \/ LiveRemoteCommit
    \/ SchedulerSyncOffline
    \/ SchedulerSyncOnline

SpecLive == InitGit /\ [][NextLive]_vars /\ WF_vars(SchedulerSyncOnline)

(***************************************************************************)
(* C19.  A push that fails removes no local commit, and the failure is     *)
(* retried: if the scheduler keeps running and the remote is eventually    *)
(* reachable without conflict, every local commit is eventually present on *)
(* the remote.                                                             *)
(***************************************************************************)
PushingCalls ==
    {"create_task", "update_task_status", "delete_task", "sync_now"}

C19_FailedPushRetried ==
    /\ [][(call'.op \in PushingCalls /\ ahead' > 0 /\ ~rebase'.active) =>
            (commits' >= commits /\ ahead' >= ahead)]_vars
    /\ (ahead > 0) ~> (rebase.active \/ (ahead = 0 /\ origin = head))

\* A cycle of the scheduler that found commits left by failed pushes has
\* just brought them to the remote.
C19_Witness ==
    /\ call.op = "sync_now"
    /\ call.net
    /\ call.pending > 0
    /\ ~rebase.active
    /\ ahead = 0
    /\ origin = head

(***************************************************************************)
(* The scheduler of the sync manager: start_auto_sync and stop_auto_sync   *)
(* are called from the server's threads, the server's configuration        *)
(* handler stops, sets the interval and starts again, and every thread     *)
(* that was started runs _sync_loop step by step beside them.              *)
(***************************************************************************)
Intervals == {60, 120}

MgrCall(m) ==
    /\ InstallMgr(m)
    /\ UNCHANGED orphans
    /\ UNCHANGED <<tasks, projects, index, head, commits, clock, steps,
                   gitVars, pc, local, req, issued, syncpc, listVars>>

StartAutoSync ==
    /\ Len(start_auto_sync(Mgr).loops) <= MaxThreads
    /\ MgrCall(start_auto_sync(Mgr))
    /\ call' = [op |-> "start_auto_sync", running |-> is_alive(Mgr)]
    /\ ret' = [op |-> "start_auto_sync", val |-> None]

StopAutoSync ==
    \E joined \in BOOLEAN :
        /\ MgrCall(stop_auto_sync(Mgr, joined))
        /\ call' = [op |-> "stop_auto_sync", joined |-> joined]
        /\ ret' = [op |-> "stop_auto_sync", val |-> None]

\* PUT /api/config with auto_sync_interval_minutes, auto-sync enabled.
HandleConfig ==
    \E minutes \in Intervals, joined \in BOOLEAN :
        LET stopped == stop_auto_sync(Mgr, joined)
            set == [stopped EXCEPT !.interval_minutes = minutes]
            started == start_auto_sync(set)
        IN  /\ Len(started.loops) <= MaxThreads
            /\ MgrCall(started)
            /\ call' = [op |-> "handle_config", minutes |-> minutes,
                        joined |-> joined]
            /\ ret' = [op |-> "handle_config", val |-> None]

LoopStep(t, label) ==
    /\ loops' = [loops EXCEPT ![t] = label]
    /\ UNCHANGED <<_stop_flag, _sync_thread, interval_minutes, orphans>>

\* self._stop_flag as the thread t reads it: the flag of the SyncManager
\* object whose _sync_loop it runs.
FlagOf(t) == IF t \in DOMAIN orphans THEN orphans[t] ELSE _stop_flag

\* while not self._stop_flag
L_Test ==
    \E t \in 1..Len(loops) :
        /\ loops[t] = "test"
        /\ LoopStep(t, IF FlagOf(t) THEN "dead" ELSE "sync")
        /\ call' = [op |-> "_sync_loop", thread |-> t]
        /\ UNCHANGED <<tasks, projects, index, head, commits, clock, ret,
                       steps, gitVars, pc, local, req, issued, syncpc,
                       listVars>>

\* A loop that a raising sync_now ends.
AfterSync_Uncaught(raised) == IF raised THEN "dead" ELSE "sleep"

\* try: self.sync_now() / except Exception: whatever the cycle did, the
\* thread goes on to its sleep.
AfterSync(raised) == "sleep"

\* One cycle of the loop.  The remote answers or not, and a git command may
\* fail to run at all (`raised`).  The instants the model tells apart end
\* at MaxSchedClock; the cycles go on.
L_Sync ==
    \E t \in 1..Len(loops), net \in BOOLEAN, raised \in BOOLEAN :
        /\ loops[t] = "sync"
        /\ Install(IF raised THEN sync_now_raised(Cur)
                   ELSE sync_now(Cur, clock, net, TRUE))
        /\ clock' = IF clock < MaxSchedClock THEN clock + 1 ELSE clock
        /\ LoopStep(t, AfterSync(raised))
        /\ call' = [op |-> "sync_now", thread |-> t,
                    failed |-> raised \/ ~net]
        /\ UNCHANGED <<pc, local, req, issued, syncpc, listVars>>

\* The for loop of sleeps runs out, or breaks on the flag.
L_Sleep ==
    \E t \in 1..Len(loops) :
        /\ loops[t] = "sleep"
        /\ LoopStep(t, "test")
        /\ call' = [op |-> "_sync_loop", thread |-> t]
        /\ UNCHANGED <<tasks, projects, index, head, commits, clock, ret,
                       steps, gitVars, pc, local, req, issued, syncpc,
                       listVars>>

NextSched ==
    \/ StartAutoSync
    \/ StopAutoSync
    \/ HandleConfig
    \/ L_Test
    \/ L_Sync
    \/ L_Sleep

SpecSched == InitGit /\ [][NextSched]_vars

\* The same, with every thread that was started going on running: its
\* sleep ends, its test is made, its sync_now returns.
SpecSchedLive ==
    /\ InitGit
    /\ [][NextSched]_vars
    /\ WF_vars(L_Test)
    /\ WF_vars(L_Sync)
    /\ WF_vars(L_Sleep)

(***************************************************************************)
(* C20.  start() is idempotent: when the background loop is already        *)
(* running, a further start() starts no second loop, leaves the stop flag, *)
(* the interval and the last-sync time unchanged, and raises no error.     *)
(***************************************************************************)
C20_StartIdempotent ==
    [][(call'.op = "start_auto_sync" /\ call'.running) =>
          /\ loops' = loops
          /\ _sync_thread' = _sync_thread
          /\ _stop_flag' = _stop_flag
          /\ interval_minutes' = interval_minutes
          /\ last_sync' = last_sync
          /\ ret'.val = None]_vars

\* A start made after a stop whose join ran out: the thread is alive, the
\* flag is up, a sync has been made and the interval has been changed.
C20_Witness ==
    /\ call.op = "start_auto_sync"
    /\ call.running
    /\ _stop_flag
    /\ is_alive(Mgr)
    /\ last_sync # None
    /\ interval_minutes = 60

(***************************************************************************)
(* C21.  stop() always returns: it records the stop request, waits at most *)
(* the grace period for the loop to end, and returns even if the in-flight *)
(* sync cycle has not finished; it never interrupts that cycle, and once   *)
(* the loop observes the request it starts no further cycle.               *)
(***************************************************************************)
\* The thread t enters sync_now.
StartsCycle(t) == loops[t] # "sync" /\ loops'[t] = "sync"

C21_StopIsSoft ==
    /\ [](ENABLED StopAutoSync)
    /\ [][call'.op = "stop_auto_sync" =>
            /\ _stop_flag'
            /\ ret' = [op |-> "stop_auto_sync", val |-> None]
            /\ \A t \in 1..Len(loops) :
                  loops[t] = "sync" => loops'[t] = "sync"
            /\ UNCHANGED <<tasks, projects, index, head, commits, gitVars>>]_vars
    /\ [][\A t \in 1..Len(loops) :
            /\ StartsCycle(t) => ~_stop_flag
            /\ (_stop_flag /\ loops[t] = "test") => loops'[t] \in {"test", "dead"}
            /\ loops[t] = "dead" => loops'[t] = "dead"]_vars

\* A stop has just returned, its join run out, while the thread is inside
\* sync_now.
C21_Witness ==
    /\ call.op = "stop_auto_sync"
    /\ call.joined
    /\ _stop_flag
    /\ is_alive(Mgr)
    /\ loops[_sync_thread] = "sync"

(***************************************************************************)
(* C22.  A failure inside one sync cycle (a non-zero git exit or an        *)
(* exception from pull, commit or push) does not end the background loop:  *)
(* as long as stop has not been requested, another sync cycle is           *)
(* eventually started after every failed cycle.                            *)
(***************************************************************************)
\* The thread t has just come out of a cycle that failed.
FailedCycle(t) ==
    /\ call.op = "sync_now"
    /\ call.thread = t
    /\ call.failed

\* The thread t is inside sync_now.
InCycle(t) == t <= Len(loops) /\ loops[t] = "sync"

\* stop_auto_sync has been called: the flag is up, or the configuration
\* handler has just raised it and started the scheduler again.
StopRequested ==
    _stop_flag \/ call.op \in {"stop_auto_sync", "handle_config"}

C22_LoopSurvivesFailure ==
    \A t \in 1..MaxThreads :
        FailedCycle(t) ~> (StopRequested \/ InCycle(t))

\* A thread is inside sync_now again after a cycle of its own in which a
\* git command raised, and no stop has been asked for.
C22_Witness ==
    /\ call.op = "_sync_loop"
    /\ loops[call.thread] = "sync"
    /\ ret = [op |-> "sync_now", val |-> "False"]
    /\ ~_stop_flag

(***************************************************************************)
(* C32.  After stop() followed by start() -- the sequence run when the     *)
(* interval is changed through a configuration update with auto-sync       *)
(* enabled -- the background loop is eventually running and stays running  *)
(* with the new interval until the next stop(), also when the old loop was *)
(* still alive (sleeping or mid-cycle) at the moment stop()'s grace period *)
(* expired.                                                                *)
(***************************************************************************)
\* A loop is running: the current thread is alive and no stop is asked of
\* it.
Running == is_alive(Mgr) /\ ~_stop_flag

C32_RestartRuns ==
    /\ [][call'.op = "handle_config" =>
            interval_minutes' = call'.minutes]_vars
    /\ [][(Running /\ call'.op \notin {"stop_auto_sync", "handle_config"}) =>
            (Running' /\ interval_minutes' = interval_minutes)]_vars
    /\ (call.op = "handle_config") ~> (Running \/ call.op = "stop_auto_sync")

(***************************************************************************)
(* The scheduler under the server's request threads.  Each request runs on *)
(* a thread of its own and the sync manager takes no lock, so the test and *)
(* the thread creation of concurrent start_auto_sync calls interleave; a   *)
(* POST /setup runs init_app again, which builds a new SyncManager for the *)
(* same repository and starts it, the threads of the old object going on   *)
(* with the old object's flag.                                             *)
(***************************************************************************)
InitServer ==
    /\ tasks = Seed.head.tasks
    /\ projects = Seed.head.projects
    /\ index = Seed.head
    /\ head = Seed.head
    /\ commits = Seed.commits
    /\ clock = 2
    /\ call = [op |-> "init"]
    /\ ret = [op |-> "init", val |-> None]
    /\ steps = <<>>
    /\ remote = TRUE
    /\ remote_url = "url"
    /\ origin_url = "url"
    /\ origin = Seed.head
    /\ base = Seed.head
    /\ ahead = 0
    /\ behind = 0
    /\ rebase = NoRebase
    /\ last_sync = None
    /\ pc = [t \in 1..NCallers |-> "idle"]
    /\ local = [t \in {} |-> None]
    /\ req = [t \in {} |-> None]
    /\ issued = <<>>
    /\ lpc = "off"
    /\ result = [top |-> <<>>, out |-> <<>>]
    /\ snapshots = <<>>
    /\ NoScheduler
    /\ syncpc = "off"

\* A step of the start_auto_sync call made by the request thread t.
StartStep(t, label, m) ==
    /\ pc' = [pc EXCEPT ![t] = label]
    /\ InstallMgr(m)
    /\ call' = [op |-> "start_auto_sync", caller |-> t, at |-> pc[t]]
    /\ UNCHANGED <<tasks, projects, index, head, commits, clock, ret, steps,
                   gitVars, local, req, issued, syncpc, listVars, orphans>>

\* if self._sync_thread and self._sync_thread.is_alive(): return
A_Check ==
    \E t \in 1..NCallers :
        /\ pc[t] = "idle"
        /\ StartStep(t, IF is_alive(Mgr) THEN "idle" ELSE "start", Mgr)

\* self._stop_flag = False; self._sync_thread = Thread(...); start()
A_Start ==
    \E t \in 1..NCallers :
        /\ pc[t] = "start"
        /\ Len(loops) < MaxThreads
        /\ StartStep(t, "idle", StartThread(Mgr))

\* SyncManager(repo_path, remote_url, interval_minutes) of init_app.
NewManager ==
    [_stop_flag |-> FALSE, _sync_thread |-> NoThread,
     interval_minutes |-> interval_minutes, loops |-> loops]

\* POST /setup with the remote URL: init_app replaces the SyncManager,
\* finds the repository in place, syncs (sync_on_startup) and starts the
\* scheduler (auto_sync_enabled).  Taken while no start_auto_sync call is
\* in progress.
Setup ==
    \E net \in BOOLEAN :
        /\ \A t \in 1..NCallers : pc[t] = "idle"
        /\ Len(loops) < MaxThreads
        /\ orphans' = [t \in 1..Len(loops) |-> FlagOf(t)]
        /\ InstallMgr(start_auto_sync(NewManager))
        /\ Install(sync_now([clone_or_init(Cur, "repo", net) EXCEPT
                                !.last_sync = None],
                            clock, net, TRUE))
        /\ clock' = IF clock < MaxSchedClock THEN clock + 1 ELSE clock
        /\ call' = [op |-> "setup", net |-> net]
        /\ UNCHANGED <<pc, local, req, issued, syncpc, listVars>>

NextServer ==
    \/ A_Check
    \/ A_Start
    \/ Setup
    \/ StopAutoSync
    \/ L_Test
    \/ L_Sync
    \/ L_Sleep

SpecServer == InitServer /\ [][NextServer]_vars

(***************************************************************************)
(* C33.  At most one background sync loop is alive for a given repository  *)
(* in every reachable state, including under concurrent start() calls and  *)
(* when the application is initialised again by a repeated setup request.  *)
(***************************************************************************)
AliveLoops == {t \in 1..Len(loops) : loops[t] # "dead"}

C33_OneLoop == Cardinality(AliveLoops) <= 1

(***************************************************************************)
(* Concurrent calls.  The server handles each request on a thread of its   *)
(* own and the sync loop runs on a background thread; the store and the    *)
(* sync manager take no lock, so the file and git steps of calls in        *)
(* progress interleave.  NCallers calls of update_task_status on the seed  *)
(* task run beside the sync loop; the remote answers.                      *)
(***************************************************************************)
Callers == 1..NCallers

\* The status each call asks for: consecutive calls ask for different
\* ones, so that every call run on its own changes the document.
ConcStatus(t) == IF t % 2 = 1 THEN "in_progress" ELSE "completed"

InitConc ==
    /\ tasks = Seed.head.tasks
    /\ projects = Seed.head.projects
    /\ index = Seed.head
    /\ head = Seed.head
    /\ commits = Seed.commits
    /\ clock = 2
    /\ call = [op |-> "init"]
    /\ ret = [op |-> "init", val |-> None]
    /\ steps = <<>>
    /\ remote = TRUE
    /\ remote_url = "url"
    /\ origin_url = "url"
    /\ origin = Seed.head
    /\ base = Seed.head
    /\ ahead = 0
    /\ behind = 0
    /\ rebase = NoRebase
    /\ last_sync = None
    /\ pc = [t \in Callers |-> "idle"]
    /\ local = [t \in Callers |-> None]
    /\ req = [t \in Callers |-> ConcStatus(t)]
    /\ issued = <<>>
    /\ lpc = "off"
    /\ result = [top |-> <<>>, out |-> <<>>]
    /\ snapshots = <<>>
    /\ NoScheduler
    /\ syncpc = "sleep"

\* A step of a thread changes the repository and nothing of the
\* call-by-call bookkeeping.
Step(s) == Install(s) /\ UNCHANGED <<call, req, listVars, schedVars>>

Goto(t, label) == pc' = [pc EXCEPT ![t] = label]

\* The request arrives and the handler is entered.
U_Call(t) ==
    /\ pc[t] = "idle"
    /\ Goto(t, "exists")
    /\ issued' = Append(issued, t)
    /\ Step(Cur)
    /\ UNCHANGED <<clock, local, syncpc>>

\* if not task_file.exists(): return False
U_Exists(t) ==
    /\ pc[t] = "exists"
    /\ Goto(t, IF SeedId \in DOMAIN tasks THEN "read" ELSE "False")
    /\ Step(Cur)
    /\ UNCHANGED <<clock, local, issued, syncpc>>

\* task_data = json.loads(task_file.read_text())
U_Read(t) ==
    /\ pc[t] = "read"
    /\ IF SeedId \in DOMAIN tasks /\ Parses(tasks[SeedId])
       THEN Goto(t, "write") /\ local' = [local EXCEPT ![t] = tasks[SeedId]]
       ELSE Goto(t, "False") /\ UNCHANGED local
    /\ Step(Cur)
    /\ UNCHANGED <<clock, issued, syncpc>>

\* task_file.write_text(json.dumps(task_data))
U_Write(t) ==
    /\ pc[t] = "write"
    /\ Goto(t, "add")
    /\ Step([Cur EXCEPT !.tasks =
                Put(tasks, SeedId, WithStatus(local[t], clock, req[t], None))])
    /\ clock' = IF req[t] = "completed" THEN clock + 1 ELSE clock
    /\ UNCHANGED <<local, issued, syncpc>>

\* git add <task file>; a failure raises into _git_commit_and_push's
\* `except Exception: pass`, after which the handler returns True.
U_Add(t) ==
    /\ pc[t] = "add"
    /\ IF GitAddOk(Cur, _task_file_path(SeedId))
       THEN Goto(t, "commit") /\ Step(GitAdd(Cur, _task_file_path(SeedId)))
       ELSE Goto(t, "True") /\ Step(Cur)
    /\ UNCHANGED <<clock, local, issued, syncpc>>

U_Commit(t) ==
    /\ pc[t] = "commit"
    /\ Goto(t, "push")
    /\ Step(GitCommit(Cur))
    /\ UNCHANGED <<clock, local, issued, syncpc>>

U_Push(t) ==
    /\ pc[t] = "push"
    /\ Goto(t, "True")
    /\ Step(IF remote THEN GitPush(Cur, TRUE).s ELSE Cur)
    /\ UNCHANGED <<clock, local, issued, syncpc>>

SyncStep(label, s) ==
    /\ syncpc' = label
    /\ Step(s)
    /\ UNCHANGED <<pc, local, issued>>

\* _sync_loop wakes up and calls sync_now, which goes on when a remote URL
\* is set.
S_Wake ==
    /\ syncpc = "sleep"
    /\ clock < MaxConcClock
    /\ Truthy(remote_url)
    /\ SyncStep("pull", Cur)
    /\ clock' = clock

S_Pull ==
    /\ syncpc = "pull"
    /\ SyncStep("status", GitPullRebase(Cur, TRUE).s)
    /\ clock' = clock

\* git status --porcelain
S_Status ==
    /\ syncpc = "status"
    /\ SyncStep(IF StatusPorcelain(Cur) THEN "add" ELSE "push", Cur)
    /\ clock' = clock

S_Add ==
    /\ syncpc = "add"
    /\ SyncStep("commit", GitAddAll(Cur))
    /\ clock' = clock

S_Commit ==
    /\ syncpc = "commit"
    /\ SyncStep("push", GitCommit(Cur))
    /\ clock' = clock

S_Push ==
    /\ syncpc = "push"
    /\ SyncStep("sleep", [GitPush(Cur, TRUE).s EXCEPT
                             !.last_sync = isoformat(clock)])
    /\ clock' = clock + 1

NextConc ==
    \/ \E t \in Callers : U_Call(t)
    \/ \E t \in Callers : U_Exists(t)
    \/ \E t \in Callers : U_Read(t)
    \/ \E t \in Callers : U_Write(t)
    \/ \E t \in Callers : U_Add(t)
    \/ \E t \in Callers : U_Commit(t)
    \/ \E t \in Callers : U_Push(t)
    \/ S_Wake
    \/ S_Pull
    \/ S_Status
    \/ S_Add
    \/ S_Commit
    \/ S_Push

SpecConc == InitConc /\ [][NextConc]_vars

\* A call is in progress from its first file or git step (the test that the
\* task file exists) to its last.
InProgress(t) == pc[t] \in {"read", "write", "add", "commit", "push"}

SyncInProgress == syncpc \in {"pull", "status", "add", "commit", "push"}

Returned(t) == pc[t] \in {"True", "False"}

(***************************************************************************)
(* C7.  Mutual exclusion on one repository: no two of the store's          *)
(* mutations and the sync cycles are in progress at the same time.         *)
(***************************************************************************)
C7_MutualExclusion ==
    Cardinality({t \in Callers : InProgress(t)})
        + (IF SyncInProgress THEN 1 ELSE 0) <= 1

(***************************************************************************)
(* C8.  N update_status calls issued concurrently on the same existing id  *)
(* produce exactly N new commits, and the final stored status is the one   *)
(* of the call issued last.                                                *)
(***************************************************************************)
C8_OneCommitPerCallLastWins ==
    (\A t \in Callers : Returned(t) /\ ~SyncInProgress) =>
        /\ commits = Seed.commits + NCallers
        /\ tasks[SeedId].status = req[issued[Len(issued)]]

(***************************************************************************)
(* A delete beside the update calls: the request threads of SpecConc step  *)
(* through update_task_status on the seed task while another request       *)
(* deletes it.  The delete handler is taken as one step.                   *)
(***************************************************************************)
D_Delete ==
    /\ Install(delete_task(Cur, TRUE, SeedId))
    /\ call' = [op |-> "delete_task", task_id |-> SeedId]
    /\ UNCHANGED <<clock, pc, local, req, issued, syncpc, listVars, schedVars>>

NextDelete ==
    \/ \E t \in Callers : U_Call(t)
    \/ \E t \in Callers : U_Exists(t)
    \/ \E t \in Callers : U_Read(t)
    \/ \E t \in Callers : U_Write(t)
    \/ \E t \in Callers : U_Add(t)
    \/ \E t \in Callers : U_Commit(t)
    \/ \E t \in Callers : U_Push(t)
    \/ D_Delete

SpecDelete == InitConc /\ [][NextDelete]_vars

(***************************************************************************)
(* C34.  A task whose delete(id) returned true stays absent from the store *)
(* until a later create for the same (project, name): an update_status(id) *)
(* that runs concurrently and read the document before the delete does not *)
(* write the document back.                                                *)
(***************************************************************************)
\* The last delete returned True; no create is made in SpecDelete.
DeleteReturnedTrue == ret = [op |-> "delete_task", val |-> "True"]

C34_DeletedStaysAbsent == DeleteReturnedTrue => SeedId \notin DOMAIN tasks

====
